---------------------------- MODULE Spec2Model ----------------------------
(***************************************************************************)
(* The indexing and synchronization engine of mixtape.                     *)
(*                                                                         *)
(* Three source files implement the engine's components over the same      *)
(* pair of persisted stores (the SQLite table `tracks`, the PrimaryStore,  *)
(* and the Whoosh directory `music_index`, the SearchIndex):               *)
(*   src/src/app_search.py                  MusicCollection      (MC_...)  *)
(*   src/src/music_collection/_extractor.py CollectionExtractor  (CE_...)  *)
(*   src/src/read_library.py                module functions               *)
(* The model holds one filesystem, one PrimaryStore and one SearchIndex,   *)
(* and the operations of the source files act on them.                     *)
(*                                                                         *)
(* Spec      : every operation and every watcher handler runs to           *)
(*             completion as one step (single-threaded application).       *)
(* WatchSpec : app_search.py after a startup that built both stores.       *)
(* ConcSpec  : the operations run by threads, one step per statement that  *)
(*             takes a lock or touches a store.                            *)
(* SearchSpec: the threads of app_search.py alone, with search requests.   *)
(* ExtractSpec: CollectionExtractor alone, over libraries of every         *)
(*             content.                                                    *)
(* PathSpec  : the artist fallback as a function of path and tags.         *)
(* RouteSpec : the /search route as a function of the raw hit list.        *)
(* SyncSpec  : is_synced_with_filesystem over every table and filesystem.  *)
(* RebuildSpec: the full rebuilds file by file, and a crash during the walk.*)
(* ReaderSpec: SearchSpec with search() as its two reads.                  *)
(* AppSpec   : app.py, the mixtape editor, request by request.             *)
(***************************************************************************)
EXTENDS Integers, Sequences, FiniteSets, Bags, TLC

VARIABLES
    root_exists,    \* whether the music root directory exists
    fs,             \* the files below the music root: path -> "absent", "dir" or a content
    db,             \* PrimaryStore: the committed rows of table tracks, path -> row or NoRow
    ix,             \* SearchIndex: the committed Whoosh documents, a bag
    index_exists,   \* whoosh exists_in(path_index): the index directory holds an index
    index_whoosh,   \* MusicCollection.index_whoosh: "None" or "open"
    observer,       \* how many observers of each watcher run: [Observers -> Nat]
    queue,          \* the events each running observer has still to dispatch
    booted,         \* app_search.py's module initialization: "no", "ok" or "failed"
    n_fs,           \* number of filesystem changes so far
    last,           \* the step taken last, and what it was given
    pc,             \* ConcSpec: where each thread is in the operation it runs
    lock,           \* ConcSpec: the holder of MusicCollection._lock, or "free"
    txn,            \* ConcSpec: each thread's SQLite connection: its open write transaction
    wr,             \* ConcSpec: each thread's Whoosh writer
    snap            \* ConcSpec: db_paths and fs_paths as a running resync read them

seq_vars == <<root_exists, fs, db, ix, index_exists, index_whoosh, observer, queue,
              booted, n_fs, last>>

conc_vars == <<pc, lock, txn, wr, snap>>

vars == <<seq_vars, conc_vars>>

(***************************************************************************)
(* Bounds of the model.                                                    *)
(***************************************************************************)
MaxFsOps == 2

(***************************************************************************)
(* Strings are sequences of characters, so that strip(), lower() and the   *)
(* path operations are computed as Python computes them.  None is a value  *)
(* that is no string.                                                      *)
(***************************************************************************)
None == <<"None">>

Truthy(s) == s # None /\ s # <<>>

\* Python's `a or b`
Or(a, b) == IF Truthy(a) THEN a ELSE b

LowerChar(c) ==
    CASE c = "A" -> "a" [] c = "B" -> "b" [] c = "C" -> "c" [] c = "D" -> "d"
      [] c = "M" -> "m" [] c = "P" -> "p" [] c = "T" -> "t" [] c = "U" -> "u"
      [] OTHER -> c

UpperChar(c) ==
    CASE c = "a" -> "A" [] c = "b" -> "B" [] c = "c" -> "C" [] c = "d" -> "D"
      [] c = "m" -> "M" [] c = "p" -> "P" [] c = "t" -> "T" [] c = "u" -> "U"
      [] c = "r" -> "R" [] c = "l" -> "L" [] c = "n" -> "N" [] c = "k" -> "K"
      [] c = "o" -> "O" [] c = "w" -> "W"
      [] OTHER -> c

IsLetter(c) == LowerChar(c) # UpperChar(c)

\* str.title(): a letter after a non-letter is upper-cased, every other letter lower-cased
Title(s) ==
    [i \in 1..Len(s) |-> IF i = 1 \/ ~IsLetter(s[i - 1]) THEN UpperChar(s[i])
                         ELSE LowerChar(s[i])]

\* str.lower()
Lower(s) == [i \in 1..Len(s) |-> LowerChar(s[i])]

RECURSIVE LStrip(_)
LStrip(s) == IF s # <<>> /\ Head(s) = " " THEN LStrip(Tail(s)) ELSE s

RECURSIVE RStrip(_)
RStrip(s) == IF s # <<>> /\ s[Len(s)] = " " THEN RStrip(SubSeq(s, 1, Len(s) - 1)) ELSE s

\* str.strip()
Strip(s) == RStrip(LStrip(s))

Unknown == <<"U", "n", "k", "n", "o", "w", "n">>

(***************************************************************************)
(* Paths.  A path is named by an identifier; Parts gives its components    *)
(* from the filesystem root.  The music root is /m.                        *)
(***************************************************************************)
Paths == {"p1", "p2", "p3"}

Parts(p) ==
    CASE p = "p1" -> << <<"m">>, <<"A", "r">>, <<"A", "l">>, <<"a", ".", "m", "p", "3">> >>
      [] p = "p2" -> << <<"m">>, <<"b", ".", "M", "P", "3">> >>
      [] p = "p3" -> << <<"m">>, <<"A", "r">>, <<"A", "l">>, <<"c", ".", "t", "x", "t">> >>

\* Path.name
Name(parts) == IF parts = <<>> THEN <<>> ELSE parts[Len(parts)]

\* Path.parent
Parent(parts) == IF parts = <<>> THEN <<>> ELSE SubSeq(parts, 1, Len(parts) - 1)

\* index of the last "." of a name, 0 when there is none
LastDot(name) ==
    LET dots == {i \in 1..Len(name) : name[i] = "."}
    IN  IF dots = {} THEN 0 ELSE CHOOSE i \in dots : \A j \in dots : j <= i

\* Path.suffix: from the last dot, unless the dot leads or ends the name
Suffix(parts) ==
    LET name == Name(parts)
        i == LastDot(name)
    IN  IF 1 < i /\ i < Len(name) THEN SubSeq(name, i, Len(name)) ELSE <<>>

\* Path.stem
Stem(parts) ==
    LET name == Name(parts)
        i == LastDot(name)
    IN  IF 1 < i /\ i < Len(name) THEN SubSeq(name, 1, i - 1) ELSE name

SUPPORTED_EXTS ==
    { <<".", "m", "p", "3">>, <<".", "f", "l", "a", "c">>, <<".", "o", "g", "g">>,
      <<".", "o", "g", "a">>, <<".", "m", "4", "a">>, <<".", "m", "p", "4">>,
      <<".", "w", "a", "v">>, <<".", "w", "m", "a">> }

\* path.suffix.lower() in the supported set
Supported(p) == Lower(Suffix(Parts(p))) \in SUPPORTED_EXTS

(***************************************************************************)
(* File contents.  A content stands for the embedded tags TinyTag reads;   *)
(* "bad" is a file TinyTag.get raises on.                                  *)
(***************************************************************************)
Contents == {"c1", "c2", "bad"}

Tags(c) ==
    CASE c = "c1" -> [artist |-> <<" ", "A", "b">>, albumartist |-> None,
                      album |-> <<"C", "d">>, title |-> <<"T", "1">>]
      [] c = "c2" -> [artist |-> None, albumartist |-> None,
                      album |-> None, title |-> <<"T", "2">>]
      [] c = "c3" -> [artist |-> None, albumartist |-> <<"E", "f">>,
                      album |-> None, title |-> None]
      [] c = "c4" -> [artist |-> <<" ">>, albumartist |-> <<>>,
                      album |-> <<" ">>, title |-> <<" ">>]

\* contents the library may hold from the start: an album-artist tag only
\* (c3); whitespace-only artist, album and title tags, empty album artist (c4)
AllContents == Contents \cup {"c3", "c4"}

\* the contents a file is created with: a file of another kind holds no tags
ContentsFor(p) == IF Supported(p) THEN Contents ELSE {"bad"}

IsFile(p) == fs[p] \in AllContents
Exists(p) == fs[p] # "absent"

\* TinyTag.get(path): raises for a missing file, a directory, an unparsable file
TinyTagRaises(p) == fs[p] \notin {"c1", "c2", "c3", "c4"}

\* a walk that takes every file, whatever its extension
FsFiles == {p \in Paths : IsFile(p)}

\* the files rglob("*") yields that pass the is_file and extension filters
FsPaths == {p \in Paths : IsFile(p) /\ Supported(p)}

(***************************************************************************)
(* The stores.                                                             *)
(***************************************************************************)
NoRow == [artist |-> None, album |-> None, title |-> None]

DbPaths(d) == {p \in Paths : d[p] # NoRow}

\* an insert that keeps the row a path already has
InsertOrIgnore(conn, p, row) ==
    IF conn[p] # NoRow THEN conn ELSE [conn EXCEPT ![p] = row]

\* INSERT OR REPLACE INTO tracks, path being the PRIMARY KEY of the table:
\* the row of the path, if any, is deleted and the new one inserted
InsertOrReplace(conn, p, row) == [conn EXCEPT ![p] = row]

IxPaths(i) == {doc.path : doc \in BagToSet(i)}

\* the documents of an index with the given path
DocsOf(i, p) == {doc \in BagToSet(i) : doc.path = p}

\* number of documents an index holds for a path
DocCount(i, p) ==
    LET RECURSIVE Sum(_)
        Sum(S) == IF S = {} THEN 0
                  ELSE LET d == CHOOSE d \in S : TRUE IN CopiesIn(d, i) + Sum(S \ {d})
    IN  Sum(DocsOf(i, p))

\* writer.delete_by_term("path", p)
DeleteByTerm(i, p) ==
    LET keep == {doc \in BagToSet(i) : doc.path # p}
    IN  [doc \in keep |-> i[doc]]

\* writer.add_document(...): adds, whatever the index already holds for the path
AddDocument(i, doc) == i (+) SetToBag({doc})

(***************************************************************************)
(* Metadata extraction.                                                    *)
(***************************************************************************)
NoTag == [parsed |-> FALSE, artist |-> None, albumartist |-> None,
          album |-> None, title |-> None]

\* a TinyTag.get whose failure leaves a tag object without values
TagOf_empty(p) ==
    IF TinyTagRaises(p) THEN [NoTag EXCEPT !.parsed = TRUE]
    ELSE [parsed |-> TRUE] @@ Tags(fs[p])

\* TinyTag.get(path, tags=True, duration=True) with its failure caught: tag or None
TagOf(p) ==
    IF TinyTagRaises(p) THEN NoTag
    ELSE [parsed |-> TRUE] @@ Tags(fs[p])

\* app_search.py: artist, album, title of _index_single_track for a parsed tag
MC_metadata(tag, parts) ==
    [artist |-> Strip(Or(Or(Or(tag.artist, tag.albumartist),
                            Name(Parent(Parent(parts)))), Unknown)),
     album  |-> Strip(Or(Or(tag.album, Name(Parent(parts))), Unknown)),
     title  |-> Strip(Or(tag.title, Stem(parts)))]

\* an _extract_artist that does not read the album-artist tag
extract_artist_no_albumartist(tag, parts) ==
    LET a2 == IF ~Truthy(tag.artist) /\ Len(parts) >= 3
              THEN Name(Parent(Parent(parts))) ELSE tag.artist
    IN  Strip(Or(a2, Unknown))

\* _extractor.py: getattr(tag, field, None) is None for tag = None
extract_artist(tag, parts) ==
    LET artist == Or(tag.artist, tag.albumartist)
        a2 == IF ~Truthy(artist) /\ Len(parts) >= 3
              THEN Name(Parent(Parent(parts))) ELSE artist
    IN  Strip(Or(a2, Unknown))

GenericAlbumNames == { <<>>, <<".">>, <<".", ".">>, <<"M", "u", "s", "i", "c">>,
                       <<"m", "u", "s", "i", "c">> }

extract_album(tag, parts) ==
    LET album == tag.album
        a1 == IF ~Truthy(album) THEN Name(Parent(parts)) ELSE album
        a2 == IF ~Truthy(album) /\ a1 \in GenericAlbumNames /\ Len(parts) >= 3
              THEN Name(Parent(Parent(parts))) ELSE a1
    IN  Strip(Or(a2, Unknown))

extract_title(tag, parts) == Strip(Or(Or(tag.title, Stem(parts)), Unknown))

CE_metadata(tag, parts) ==
    [artist |-> extract_artist(tag, parts),
     album  |-> extract_album(tag, parts),
     title  |-> extract_title(tag, parts)]

\* the Whoosh document _index_single_track adds for a row
DocOf(p, row) ==
    [path |-> p, artist |-> Lower(row.artist), album |-> Lower(row.album),
     title |-> Lower(row.title)]

(***************************************************************************)
(* app_search.py, MusicCollection.                                         *)
(* A writer is the index as it will be once committed, and whether it has  *)
(* been committed (a committed Whoosh writer is closed: add_document and   *)
(* commit raise on it).  A connection is the table as it will be once      *)
(* committed.                                                              *)
(***************************************************************************)
MC_BATCH == 1000

\* _index_single_track(writer, conn, filepath): the writer and connection after
\* it, or raised when TinyTag.get failed (tag is None and tag.artist raises) or
\* the writer is closed
MC_index_single_track(writer, conn, p) ==
    LET tag == TagOf(p)
        row == MC_metadata(tag, Parts(p))
    IN  IF ~tag.parsed \/ writer.closed
        THEN [raised |-> TRUE, writer |-> writer, conn |-> conn]
        ELSE [raised |-> FALSE,
              writer |-> [writer EXCEPT !.ix = AddDocument(writer.ix, DocOf(p, row))],
              conn   |-> InsertOrReplace(conn, p, row)]

\* the loop of build_indexes over rglob's order; st holds the writer, the
\* connection, what has been committed to both stores, and count
RECURSIVE MC_walk(_, _)
MC_walk(order, st) ==
    IF order = <<>> \/ st.raised THEN st
    ELSE LET p == Head(order)
         IN  IF ~(IsFile(p) /\ Supported(p)) THEN MC_walk(Tail(order), st)
             ELSE LET r == MC_index_single_track(st.writer, st.conn, p)
                      n == st.count + 1
                  IN  IF r.raised THEN [st EXCEPT !.raised = TRUE]
                      ELSE IF n % MC_BATCH = 0
                      THEN MC_walk(Tail(order),
                               [st EXCEPT !.writer = [r.writer EXCEPT !.closed = TRUE],
                                          !.conn = r.conn, !.ix = r.writer.ix,
                                          !.db = r.conn, !.count = n])
                      ELSE MC_walk(Tail(order),
                               [st EXCEPT !.writer = r.writer, !.conn = r.conn,
                                          !.count = n])

\* build_indexes(): the committed stores after it, and whether it raised
MC_build_indexes(order) ==
    LET empty == [p \in Paths |-> NoRow]
        st0 == [raised |-> FALSE, writer |-> [ix |-> EmptyBag, closed |-> FALSE],
                conn |-> empty, ix |-> EmptyBag, db |-> db, count |-> 0]
        st == MC_walk(order, st0)
    IN  IF st.raised \/ st.writer.closed
        THEN [raised |-> TRUE, ix |-> st.ix, db |-> st.db]
        ELSE [raised |-> FALSE, ix |-> st.writer.ix, db |-> st.conn]

\* the orders in which rglob("*") may yield the paths
Orders == {o \in [1..Cardinality(Paths) -> Paths] : \A p \in Paths : \E i \in DOMAIN o : o[i] = p}

\* _update_single_file(filepath): under the lock, a fresh writer and connection;
\* any exception is caught and printed, and nothing is committed
MC_update_single_file(p) ==
    LET r == IF index_whoosh = "None"
             THEN [raised |-> TRUE]
             ELSE MC_index_single_track([ix |-> ix, closed |-> FALSE], db, p)
    IN  IF r.raised THEN [raised |-> TRUE, ix |-> ix, db |-> db]
        ELSE [raised |-> FALSE, ix |-> r.writer.ix, db |-> r.conn]

\* a _delete_file that forgets the row of table tracks
MC_delete_file_index_only(p) ==
    IF index_whoosh = "None" THEN [raised |-> TRUE, ix |-> ix, db |-> db]
    ELSE [raised |-> FALSE, ix |-> DeleteByTerm(ix, p), db |-> db]

\* _delete_file(filepath): the index deletion is committed first, then the row
MC_delete_file(p) ==
    IF index_whoosh = "None" THEN [raised |-> TRUE, ix |-> ix, db |-> db]
    ELSE [raised |-> FALSE, ix |-> DeleteByTerm(ix, p), db |-> [db EXCEPT ![p] = NoRow]]

(***************************************************************************)
(* _extractor.py, CollectionExtractor.  It writes table tracks only.       *)
(***************************************************************************)
\* _index_file(conn, path): path.stat() raises when the path is gone
CE_index_file(conn, p) ==
    IF ~Exists(p) THEN [raised |-> TRUE, conn |-> conn]
    ELSE [raised |-> FALSE,
          conn |-> InsertOrReplace(conn, p, CE_metadata(TagOf(p), Parts(p)))]

\* for path in paths: try _index_file except: log (a failure skips that path)
RECURSIVE CE_index_all(_, _)
CE_index_all(conn, paths) ==
    IF paths = {} THEN conn
    ELSE LET p == CHOOSE q \in paths : TRUE
         IN  CE_index_all(CE_index_file(conn, p).conn, paths \ {p})

\* a resync that re-extracts every file on disk, changed or not
CE_resync_all ==
    LET to_remove == DbPaths(db) \ FsPaths
        removed == [p \in Paths |-> IF p \in to_remove THEN NoRow ELSE db[p]]
    IN  CE_index_all(removed, FsPaths)

\* a resync that adds the missing rows and removes none
CE_resync_no_remove == CE_index_all(db, FsPaths \ DbPaths(db))

\* resync(): the table after its commit
CE_resync ==
    LET db_paths == DbPaths(db)
        fs_paths == FsPaths
        to_add == fs_paths \ db_paths
        to_remove == db_paths \ fs_paths
        removed == [p \in Paths |-> IF p \in to_remove THEN NoRow ELSE db[p]]
    IN  CE_index_all(removed, to_add)

\* rebuild(): the table after its commit
CE_rebuild == CE_index_all([p \in Paths |-> NoRow], FsPaths)

(***************************************************************************)
(* Filesystem events, as watchdog hands them to a handler.                 *)
(***************************************************************************)
Observers == {"MC", "CE"}

NoPath == "none"

Event(type, src, dest, isdir) ==
    [event_type |-> type, src_path |-> src, dest_path |-> dest, is_directory |-> isdir]

\* an observer of the watcher runs
Running(o) == observer[o] > 0

\* a start that never looks at the observer it holds
start_unguarded(n) == n + 1

\* start_watching(): returns when self.observer is not None and is alive, else
\* schedules and starts a new Observer; n is the number of observers running
start_watching(n) == IF n > 0 THEN n ELSE 1

\* start_monitoring(): returns when self._observer is not None
start_monitoring(n) == IF n > 0 THEN n ELSE 1

\* stop_monitoring(): stops and joins the observer self._observer names
stop_monitoring(n) == IF n > 0 THEN n - 1 ELSE 0

RECURSIVE Repeat(_, _)
Repeat(e, n) == IF n = 0 THEN <<>> ELSE <<e>> \o Repeat(e, n - 1)

\* every running observer queues the event and hands it to the handler
Emit(e) == queue' = [o \in Observers |-> queue[o] \o Repeat(e, observer[o])]

NoQuery == <<"-">>

\* what `last` records: the operation, its paths, whether it raised (for a
\* handler: whether an exception was caught inside it), whether a handler
\* returned before touching a store, whether a handler found src in both
\* stores, and for a search its query and whether it opened the index or a
\* connection
Op(op, src, dest, raised) ==
    [op |-> op, src |-> src, dest |-> dest, raised |-> raised, skipped |-> FALSE,
     tracked |-> FALSE, query |-> NoQuery, touched |-> FALSE]

Searched(op, query, r) ==
    [Op(op, NoPath, NoPath, r.raised) EXCEPT !.query = query, !.touched = r.touched]

Tracked(p) == p \in DbPaths(db) /\ p \in IxPaths(ix)

Handled(op, e, raised) ==
    [Op(op, e.src_path, e.dest_path, raised) EXCEPT !.tracked = Tracked(e.src_path)]

Skipped(op, e) == [Handled(op, e, FALSE) EXCEPT !.skipped = TRUE]

(***************************************************************************)
(* Threads: the thread that imports app_search.py, the threads that call   *)
(* the administrative operations of CollectionExtractor, and the observer  *)
(* threads of the two watchers.                                            *)
(***************************************************************************)
Main == "main"

Callers == {"a1", "a2"}

WatchMC == "mc_watch"

WatchCE == "ce_watch"

Threads == {Main, WatchMC, WatchCE} \cup Callers

EmptyTable == [p \in Paths |-> NoRow]

\* a connection without an open write transaction; a thread without a writer
NoTxn == [open |-> FALSE, rows |-> EmptyTable]

NoWriter == [open |-> FALSE, ix |-> EmptyBag]

NoSnap == [db_paths |-> {}, fs_paths |-> {}]

ConcInit ==
    /\ pc = [t \in Threads |-> IF t = Main THEN "start" ELSE "idle"]
    /\ lock = "free"
    /\ txn = [t \in Threads |-> NoTxn]
    /\ wr = [t \in Threads |-> NoWriter]
    /\ snap = [t \in Threads |-> NoSnap]

(***************************************************************************)
(* Initial state: nothing has been indexed, no process runs.  The music    *)
(* root may be missing; the library may already hold files.                *)
(***************************************************************************)
InitContents == {"absent", "c1"}

Init ==
    /\ root_exists \in BOOLEAN
    /\ fs \in [Paths -> InitContents]
    /\ \A p \in Paths : fs[p] \in {"absent"} \cup ContentsFor(p)
    /\ (~root_exists => \A p \in Paths : fs[p] = "absent")
    /\ db = [p \in Paths |-> NoRow]
    /\ ix = EmptyBag
    /\ index_exists = FALSE
    /\ index_whoosh = "None"
    /\ observer = [o \in Observers |-> 0]
    /\ queue = [o \in Observers |-> <<>>]
    /\ booted = "no"
    /\ n_fs = 0
    /\ last = Op("init", NoPath, NoPath, FALSE)
    /\ ConcInit

(***************************************************************************)
(* The environment changes the filesystem; watchdog reports each change.   *)
(***************************************************************************)
\* paths that may also name a directory
DirPaths == {"p2"}

FsCreate(p, c) ==
    /\ root_exists /\ n_fs < MaxFsOps
    /\ fs[p] = "absent"
    /\ c \in ContentsFor(p) \/ (c = "dir" /\ p \in DirPaths)
    /\ fs' = [fs EXCEPT ![p] = c]
    /\ Emit(Event("created", p, NoPath, c = "dir"))
    /\ n_fs' = n_fs + 1
    /\ last' = Op("fs", NoPath, NoPath, FALSE)
    /\ UNCHANGED <<root_exists, db, ix, index_exists, index_whoosh, observer, booted>>
    /\ UNCHANGED conc_vars

FsModify(p, c) ==
    /\ root_exists /\ n_fs < MaxFsOps
    /\ IsFile(p) /\ c \in ContentsFor(p) /\ c # fs[p]
    /\ fs' = [fs EXCEPT ![p] = c]
    /\ Emit(Event("modified", p, NoPath, FALSE))
    /\ n_fs' = n_fs + 1
    /\ last' = Op("fs", NoPath, NoPath, FALSE)
    /\ UNCHANGED <<root_exists, db, ix, index_exists, index_whoosh, observer, booted>>
    /\ UNCHANGED conc_vars

FsMove(p, q) ==
    /\ root_exists /\ n_fs < MaxFsOps
    /\ Exists(p) /\ ~Exists(q) /\ p # q
    /\ (fs[p] = "dir" => q \in DirPaths)
    /\ fs' = [fs EXCEPT ![p] = "absent", ![q] = fs[p]]
    /\ Emit(Event("moved", p, q, fs[p] = "dir"))
    /\ n_fs' = n_fs + 1
    /\ last' = Op("fs", NoPath, NoPath, FALSE)
    /\ UNCHANGED <<root_exists, db, ix, index_exists, index_whoosh, observer, booted>>
    /\ UNCHANGED conc_vars

FsDelete(p) ==
    /\ root_exists /\ n_fs < MaxFsOps
    /\ Exists(p)
    /\ fs' = [fs EXCEPT ![p] = "absent"]
    /\ Emit(Event("deleted", p, NoPath, fs[p] = "dir"))
    /\ n_fs' = n_fs + 1
    /\ last' = Op("fs", NoPath, NoPath, FALSE)
    /\ UNCHANGED <<root_exists, db, ix, index_exists, index_whoosh, observer, booted>>
    /\ UNCHANGED conc_vars

\* the music root is removed or unmounted while no process watches it
FsRemoveRoot ==
    /\ root_exists /\ n_fs < MaxFsOps
    /\ booted = "no" /\ \A o \in Observers : ~Running(o)
    /\ root_exists' = FALSE
    /\ fs' = [p \in Paths |-> "absent"]
    /\ n_fs' = n_fs + 1
    /\ last' = Op("fs", NoPath, NoPath, FALSE)
    /\ UNCHANGED <<db, ix, index_exists, index_whoosh, observer, queue, booted>>
    /\ UNCHANGED conc_vars

(***************************************************************************)
(* app_search.py: module initialization, the watcher's handlers, search.   *)
(***************************************************************************)
\* an ensure_index that does not look for the music folder
MusicFolderAssumed == FALSE

\* ensure_index(): not self.path_music.exists()
MusicFolderMissing == ~root_exists

\* collection.ensure_index(); collection.start_watching() inside one try:
\* an exception of ensure_index leaves index_whoosh None and starts no watcher
MC_module_init ==
    /\ booted = "no"
    /\ IF MusicFolderMissing
       THEN /\ booted' = "failed"
            /\ last' = Op("ensure_index", NoPath, NoPath, TRUE)
            /\ UNCHANGED <<db, ix, index_exists, index_whoosh, observer>>
       ELSE IF ~index_exists \/ DbPaths(db) = {}
       THEN \E order \in Orders :
              LET r == MC_build_indexes(order)
              IN  /\ ix' = r.ix
                  /\ db' = r.db
                  /\ index_exists' = TRUE
                  /\ index_whoosh' = IF r.raised THEN "None" ELSE "open"
                  /\ observer' = [observer EXCEPT !["MC"] = IF r.raised THEN @ ELSE start_watching(@)]
                  /\ booted' = IF r.raised THEN "failed" ELSE "ok"
                  /\ last' = Op("build_indexes", NoPath, NoPath, r.raised)
       ELSE /\ index_whoosh' = "open"
            /\ observer' = [observer EXCEPT !["MC"] = start_watching(@)]
            /\ booted' = "ok"
            /\ last' = Op("ensure_index", NoPath, NoPath, FALSE)
            /\ UNCHANGED <<db, ix, index_exists>>
    /\ UNCHANGED <<root_exists, fs, queue, n_fs>>
    /\ UNCHANGED conc_vars

\* collection.start_watching() called again in the running process
MC_start_watching ==
    /\ booted # "no"
    /\ observer' = [observer EXCEPT !["MC"] = start_watching(@)]
    /\ last' = Op("start_watching", NoPath, NoPath, FALSE)
    /\ UNCHANGED <<root_exists, fs, db, ix, index_exists, index_whoosh, queue, booted, n_fs>>
    /\ UNCHANGED conc_vars

\* the process ends: the observers stop, the stores stay on disk
Shutdown ==
    /\ booted # "no"
    /\ booted' = "no"
    /\ index_whoosh' = "None"
    /\ observer' = [o \in Observers |-> 0]
    /\ queue' = [o \in Observers |-> <<>>]
    /\ last' = Op("shutdown", NoPath, NoPath, FALSE)
    /\ UNCHANGED <<root_exists, fs, db, ix, index_exists, n_fs>>
    /\ UNCHANGED conc_vars

\* the event the observer dispatches next
Next_event(o) == Head(queue[o])

Dispatch(o, type) ==
    /\ Running(o)
    /\ queue[o] # <<>>
    /\ Next_event(o).event_type = type
    /\ queue' = [queue EXCEPT ![o] = Tail(@)]

\* the stores and `last` after a handler that calls _update_single_file(p)
MC_apply_update(op, e, p) ==
    IF e.is_directory \/ ~Supported(p)
    THEN /\ last' = Skipped(op, e)
         /\ UNCHANGED <<db, ix>>
    ELSE LET r == MC_update_single_file(p)
         IN  /\ ix' = r.ix
             /\ db' = r.db
             /\ last' = Handled(op, e, r.raised)

\* Watcher.on_created
MC_on_created ==
    /\ Dispatch("MC", "created")
    /\ MC_apply_update("on_created", Next_event("MC"), Next_event("MC").src_path)
    /\ UNCHANGED <<root_exists, fs, index_exists, index_whoosh, observer, booted, n_fs>>
    /\ UNCHANGED conc_vars

\* Watcher.on_modified: self.on_created(event)
MC_on_modified ==
    /\ Dispatch("MC", "modified")
    /\ MC_apply_update("on_modified", Next_event("MC"), Next_event("MC").src_path)
    /\ UNCHANGED <<root_exists, fs, index_exists, index_whoosh, observer, booted, n_fs>>
    /\ UNCHANGED conc_vars

\* Watcher.on_moved: only the destination is handled
MC_on_moved ==
    /\ Dispatch("MC", "moved")
    /\ MC_apply_update("on_moved", Next_event("MC"), Next_event("MC").dest_path)
    /\ UNCHANGED <<root_exists, fs, index_exists, index_whoosh, observer, booted, n_fs>>
    /\ UNCHANGED conc_vars

\* Watcher.on_deleted: no extension filter
MC_on_deleted ==
    /\ Dispatch("MC", "deleted")
    /\ LET e == Next_event("MC")
       IN  IF e.is_directory
           THEN /\ last' = Skipped("on_deleted", e)
                /\ UNCHANGED <<db, ix>>
           ELSE LET r == MC_delete_file(e.src_path)
                IN  /\ ix' = r.ix
                    /\ db' = r.db
                    /\ last' = Handled("on_deleted", e, r.raised)
    /\ UNCHANGED <<root_exists, fs, index_exists, index_whoosh, observer, booted, n_fs>>
    /\ UNCHANGED conc_vars

\* the words of a text field: the maximal runs of characters other than a space
Tokens(s) ==
    {SubSeq(s, i, j) : <<i, j>> \in
        {ij \in (1..Len(s)) \X (1..Len(s)) :
            /\ ij[1] <= ij[2]
            /\ \A k \in ij[1]..ij[2] : s[k] # " "
            /\ (ij[1] = 1 \/ s[ij[1] - 1] = " ")
            /\ (ij[2] = Len(s) \/ s[ij[2] + 1] = " ")}}

\* s with its i-th character removed
Without(s, i) == SubSeq(s, 1, i - 1) \o SubSeq(s, i + 1, Len(s))

\* edit distance at most 1: equal, one substitution, one insertion or deletion
Within1(a, b) ==
    \/ a = b
    \/ Len(a) = Len(b) /\ Cardinality({i \in 1..Len(a) : a[i] # b[i]}) = 1
    \/ Len(a) = Len(b) + 1 /\ \E i \in 1..Len(a) : Without(a, i) = b
    \/ Len(b) = Len(a) + 1 /\ \E i \in 1..Len(b) : Without(b, i) = a

\* the query "<term>~1" over the fields artist, album, title
Matches(doc, term) ==
    \E f \in {doc.artist, doc.album, doc.title} :
        \E t \in Tokens(f) : Within1(t, term)

\* _collect_search_hits: the row of the hit's path, else the stored fields title-cased
Hydrate(doc) ==
    IF db[doc.path] # NoRow
    THEN [path |-> doc.path, artist |-> db[doc.path].artist,
          album |-> db[doc.path].album, title |-> db[doc.path].title]
    ELSE [path |-> doc.path, artist |-> Title(doc.artist),
          album |-> Title(doc.album), title |-> Title(doc.title)]

RECURSIVE HydrateAll(_, _)
HydrateAll(docs, i) ==
    IF docs = {} THEN EmptyBag
    ELSE LET d == CHOOSE x \in docs : TRUE
         IN  [h \in {Hydrate(d)} |-> CopiesIn(d, i)] (+) HydrateAll(docs \ {d}, i)

\* search(query, limit) for a one-word query and a limit above the number of
\* documents: the hits, one per matching document, or raised (index_whoosh is
\* None and self.index_whoosh.searcher() raises AttributeError)
MC_search_result(query) ==
    IF Strip(query) = <<>> THEN [raised |-> FALSE, touched |-> FALSE, hits |-> EmptyBag]
    ELSE IF index_whoosh = "None" THEN [raised |-> TRUE, touched |-> FALSE, hits |-> EmptyBag]
    ELSE [raised |-> FALSE, touched |-> TRUE,
          hits |-> HydrateAll({d \in BagToSet(ix) : Matches(d, Lower(Strip(query)))}, ix)]

Queries == { <<" ">>, <<"t", "3">>, <<"a", "r">> }

MC_search(query) ==
    /\ booted # "no"
    /\ last' = Searched("search", query, MC_search_result(query))
    /\ UNCHANGED <<root_exists, fs, db, ix, index_exists, index_whoosh, observer, queue,
                   booted, n_fs>>
    /\ UNCHANGED conc_vars

(***************************************************************************)
(* read_library.py: search.                                                *)
(***************************************************************************)
\* the index hits of the parsed query: strip() + "~1" of a blank query has no
\* term to look for
IndexHits(query) ==
    IF Strip(query) = <<>> THEN {}
    ELSE {d \in BagToSet(ix) : Matches(d, Lower(Strip(query)))}

\* the hits of read_library.search that have a row, each as its row
RECURSIVE RL_collect(_, _)
RL_collect(docs, i) ==
    IF docs = {} THEN EmptyBag
    ELSE LET d == CHOOSE x \in docs : TRUE
             rest == RL_collect(docs \ {d}, i)
         IN  IF db[d.path] = NoRow THEN rest
             ELSE [h \in {Hydrate(d)} |-> CopiesIn(d, i)] (+) rest

\* read_library.search(query, limit): open_dir raises where no index exists;
\* the searcher and a connection are opened whatever the query is
RL_search_result(query) ==
    IF ~index_exists THEN [raised |-> TRUE, touched |-> FALSE, hits |-> EmptyBag]
    ELSE [raised |-> FALSE, touched |-> TRUE, hits |-> RL_collect(IndexHits(query), ix)]

RL_search(query) ==
    /\ last' = Searched("rl_search", query, RL_search_result(query))
    /\ UNCHANGED <<root_exists, fs, db, ix, index_exists, index_whoosh, observer, queue,
                   booted, n_fs>>
    /\ UNCHANGED conc_vars

RL_UnknownArtist == Unknown \o <<" ", "A", "r", "t", "i", "s", "t">>

RL_UnknownAlbum == Unknown \o <<" ", "A", "l", "b", "u", "m">>

\* get_metadata(filepath) for a parsed tag
RL_metadata(tag, parts) ==
    [artist |-> Strip(Or(Or(Or(tag.artist, tag.albumartist),
                            Name(Parent(Parent(parts)))), RL_UnknownArtist)),
     album  |-> Strip(Or(Or(tag.album, Name(Parent(parts))), RL_UnknownAlbum)),
     title  |-> Strip(Or(tag.title, Stem(parts)))]

\* build_indexes(): the index directory is removed and created again, the
\* rows are deleted, and one writer and one connection take every supported
\* file; get_metadata raises on a file TinyTag cannot read (tag is None), and
\* then nothing is committed: the new index is empty, the rows are as before
RL_build_indexes ==
    LET row(q) == RL_metadata(TagOf(q), Parts(q))
    IN  IF \E q \in FsPaths : ~TagOf(q).parsed
        THEN [raised |-> TRUE, ix |-> EmptyBag, db |-> db]
        ELSE [raised |-> FALSE,
              ix |-> SetToBag({DocOf(q, row(q)) : q \in FsPaths}),
              db |-> [q \in Paths |-> IF q \in FsPaths THEN row(q) ELSE NoRow]]

\* get_index(): init_db(), a full build when there is no index, open_dir
RL_get_index ==
    /\ IF ~index_exists
       THEN LET r == RL_build_indexes
            IN  /\ ix' = r.ix
                /\ db' = r.db
                /\ index_exists' = TRUE
                /\ last' = Op("rl_build_indexes", NoPath, NoPath, r.raised)
       ELSE /\ last' = Op("rl_get_index", NoPath, NoPath, FALSE)
            /\ UNCHANGED <<db, ix, index_exists>>
    /\ UNCHANGED <<root_exists, fs, index_whoosh, observer, queue, booted, n_fs>>
    /\ UNCHANGED conc_vars

(***************************************************************************)
(* _extractor.py: the administrative operations and the watcher.           *)
(***************************************************************************)
CE_do_resync ==
    /\ db' = CE_resync
    /\ last' = Op("resync", NoPath, NoPath, FALSE)
    /\ UNCHANGED <<root_exists, fs, ix, index_exists, index_whoosh, observer, queue,
                   booted, n_fs>>
    /\ UNCHANGED conc_vars

CE_do_rebuild ==
    /\ db' = CE_rebuild
    /\ last' = Op("rebuild", NoPath, NoPath, FALSE)
    /\ UNCHANGED <<root_exists, fs, ix, index_exists, index_whoosh, observer, queue,
                   booted, n_fs>>
    /\ UNCHANGED conc_vars

\* start_monitoring(): nothing when an observer is already held
CE_start_monitoring ==
    /\ root_exists
    /\ observer' = [observer EXCEPT !["CE"] = start_monitoring(@)]
    /\ last' = Op("start_monitoring", NoPath, NoPath, FALSE)
    /\ UNCHANGED <<root_exists, fs, db, ix, index_exists, index_whoosh, queue, booted, n_fs>>
    /\ UNCHANGED conc_vars

\* a stop that does not wait for the observer's thread
NotJoined == TRUE

\* self._observer.join(): returns once the observer's thread has ended, which
\* it does between two events, not inside a handler
Joined == pc[WatchCE] \in {"idle", "dead"}

\* stop_monitoring(): stop and join the observer; its undispatched events are lost
CE_stop_monitoring ==
    /\ Joined
    /\ observer' = [observer EXCEPT !["CE"] = stop_monitoring(@)]
    /\ queue' = [queue EXCEPT !["CE"] = <<>>]
    /\ last' = [Op("stop_monitoring", NoPath, NoPath, FALSE)
                    EXCEPT !.skipped = ~Running("CE")]
    /\ pc' = [pc EXCEPT ![WatchCE] = IF @ = "dead" THEN "idle" ELSE @]
    /\ UNCHANGED <<root_exists, fs, db, ix, index_exists, index_whoosh, booted, n_fs>>
    /\ UNCHANGED <<lock, txn, wr, snap>>

\* Watcher.on_any_event(event): the path tested and indexed is src_path
CE_on_any_event ==
    /\ Running("CE")
    /\ queue["CE"] # <<>>
    /\ queue' = [queue EXCEPT !["CE"] = Tail(@)]
    /\ LET e == Next_event("CE")
           p == e.src_path
       IN  IF e.is_directory \/ ~Supported(p)
           THEN /\ last' = Skipped("on_any_event", e)
                /\ UNCHANGED db
           ELSE /\ db' = IF e.event_type \in {"deleted", "moved"}
                         THEN [db EXCEPT ![p] = NoRow]
                         ELSE IF Exists(p) THEN CE_index_file(db, p).conn
                         ELSE db
                /\ last' = Handled("on_any_event", e, FALSE)
    /\ UNCHANGED <<root_exists, fs, ix, index_exists, index_whoosh, observer, booted, n_fs>>
    /\ UNCHANGED conc_vars

Next ==
    \/ \E p \in Paths, c \in Contents \cup {"dir"} : FsCreate(p, c)
    \/ \E p \in Paths, c \in Contents : FsModify(p, c)
    \/ \E p, q \in Paths : FsMove(p, q)
    \/ \E p \in Paths : FsDelete(p)
    \/ FsRemoveRoot
    \/ MC_module_init
    \/ MC_start_watching
    \/ Shutdown
    \/ MC_on_created
    \/ MC_on_modified
    \/ MC_on_moved
    \/ MC_on_deleted
    \/ \E q \in Queries : MC_search(q)
    \/ \E q \in Queries : RL_search(q)
    \/ RL_get_index
    \/ CE_do_resync
    \/ CE_do_rebuild
    \/ CE_start_monitoring
    \/ CE_stop_monitoring
    \/ CE_on_any_event

Spec == Init /\ [][Next]_vars

(***************************************************************************)
(* WatchSpec: the life of app_search.py after a startup that built both    *)
(* stores from the library and started its watcher; from then on only the  *)
(* filesystem changes and the watcher's handlers and searches run.         *)
(***************************************************************************)
InitWatch ==
    /\ root_exists = TRUE
    /\ fs \in [Paths -> InitContents]
    /\ \A p \in Paths : fs[p] \in {"absent"} \cup ContentsFor(p)
    /\ db = [p \in Paths |-> IF p \in FsPaths THEN MC_metadata(TagOf(p), Parts(p)) ELSE NoRow]
    /\ ix = SetToBag({DocOf(p, MC_metadata(TagOf(p), Parts(p))) : p \in FsPaths})
    /\ index_exists = TRUE
    /\ index_whoosh = "open"
    /\ observer = [o \in Observers |-> IF o = "MC" THEN 1 ELSE 0]
    /\ queue = [o \in Observers |-> <<>>]
    /\ booted = "ok"
    /\ n_fs = 0
    /\ last = Op("build_indexes", NoPath, NoPath, FALSE)
    /\ ConcInit

NextWatch ==
    \/ \E p \in Paths, c \in Contents \cup {"dir"} : FsCreate(p, c)
    \/ \E p \in Paths, c \in Contents : FsModify(p, c)
    \/ \E p, q \in Paths : FsMove(p, q)
    \/ \E p \in Paths : FsDelete(p)
    \/ MC_on_created
    \/ MC_on_modified
    \/ MC_on_moved
    \/ MC_on_deleted
    \/ \E q \in Queries : MC_search(q)

WatchSpec == InitWatch /\ [][NextWatch]_vars

(***************************************************************************)
(* ConcSpec: the same operations, one step per statement that takes a      *)
(* lock or reads or writes a store, run by threads.  MusicCollection._lock *)
(* is taken by _update_single_file and _delete_file only.  SQLite lets one *)
(* connection hold a write transaction: a write statement of another       *)
(* connection waits, and raises "database is locked" when the connection's *)
(* timeout (10 s in _extractor.py, sqlite3's 5 s in app_search.py) passes  *)
(* first.  Whoosh has one WRITELOCK per index: writer() raises LockError   *)
(* while another writer holds it.  A writer or connection left behind by   *)
(* an exception is dropped, with what it held, when its function returns.  *)
(***************************************************************************)
MaxConcFsOps == 1

Goto(t, l) == pc' = [pc EXCEPT ![t] = l]

\* another connection holds the write transaction
DbLocked(t) == \E u \in Threads \ {t} : txn[u].open

\* a writer holds WRITELOCK
IxLocked == \E u \in Threads : wr[u].open

\* where a handler goes when a write statement timed out: behind the write
\* transaction of a rebuild or resync, or behind that of the other watcher
LockedOut(t) ==
    Goto(t, IF \E u \in Callers \cup {Main} : txn[u].open
            THEN "locked_out_by_sync" ELSE "locked_out")

Begin(t, rows) == txn' = [txn EXCEPT ![t] = [open |-> TRUE, rows |-> rows]]

\* conn.commit(): the transaction's rows become the table
Commit(t) ==
    /\ db' = txn[t].rows
    /\ txn' = [txn EXCEPT ![t] = NoTxn]

\* ensure_index() up to the decision to build
M_start ==
    /\ pc[Main] = "start"
    /\ IF ~root_exists
       THEN /\ booted' = "failed"
            /\ Goto(Main, "done")
            /\ UNCHANGED <<index_whoosh, observer>>
       ELSE IF ~index_exists \/ DbPaths(db) = {}
       THEN /\ Goto(Main, "b_reset")
            /\ UNCHANGED <<booted, index_whoosh, observer>>
       ELSE /\ index_whoosh' = "open"
            /\ observer' = [observer EXCEPT !["MC"] = start_watching(@)]
            /\ booted' = "ok"
            /\ Goto(Main, "done")
    /\ UNCHANGED <<root_exists, fs, db, ix, index_exists, queue, n_fs, last>>
    /\ UNCHANGED <<lock, txn, wr, snap>>

\* build_indexes: self._reset_indexes()
M_reset ==
    /\ pc[Main] = "b_reset"
    /\ index_exists' = FALSE
    /\ ix' = EmptyBag
    /\ Goto(Main, "b_create")
    /\ UNCHANGED <<root_exists, fs, db, index_whoosh, observer, queue, booted, n_fs, last>>
    /\ UNCHANGED <<lock, txn, wr, snap>>

\* build_indexes: ix = create_in(...); writer = ix.writer()
M_create ==
    /\ pc[Main] = "b_create"
    /\ index_exists' = TRUE
    /\ wr' = [wr EXCEPT ![Main] = [open |-> TRUE, ix |-> EmptyBag]]
    /\ Goto(Main, "b_delete")
    /\ UNCHANGED <<root_exists, fs, db, ix, index_whoosh, observer, queue, booted, n_fs, last>>
    /\ UNCHANGED <<lock, txn, snap>>

\* build_indexes: conn.execute("DELETE FROM tracks")
M_delete ==
    /\ pc[Main] = "b_delete"
    /\ ~DbLocked(Main)
    /\ Begin(Main, EmptyTable)
    /\ Goto(Main, "b_walk")
    /\ UNCHANGED seq_vars
    /\ UNCHANGED <<lock, wr, snap>>

\* the DELETE timed out: build_indexes raises, module initialization prints it
M_delete_locked ==
    /\ pc[Main] = "b_delete"
    /\ DbLocked(Main)
    /\ wr' = [wr EXCEPT ![Main] = NoWriter]
    /\ booted' = "failed"
    /\ Goto(Main, "done")
    /\ UNCHANGED <<root_exists, fs, db, ix, index_exists, index_whoosh, observer, queue,
                   n_fs, last>>
    /\ UNCHANGED <<lock, txn, snap>>

\* build_indexes: the loop over rglob("*")
M_walk ==
    /\ pc[Main] = "b_walk"
    /\ \E order \in Orders :
         LET st == MC_walk(order,
                      [raised |-> FALSE,
                       writer |-> [ix |-> wr[Main].ix, closed |-> FALSE],
                       conn |-> txn[Main].rows, ix |-> ix, db |-> db, count |-> 0])
         IN  IF st.raised
             THEN /\ wr' = [wr EXCEPT ![Main] = NoWriter]
                  /\ txn' = [txn EXCEPT ![Main] = NoTxn]
                  /\ booted' = "failed"
                  /\ Goto(Main, "done")
             ELSE /\ wr' = [wr EXCEPT ![Main] = [open |-> TRUE, ix |-> st.writer.ix]]
                  /\ Begin(Main, st.conn)
                  /\ Goto(Main, "b_commit_ix")
                  /\ UNCHANGED booted
    /\ UNCHANGED <<root_exists, fs, db, ix, index_exists, index_whoosh, observer, queue,
                   n_fs, last>>
    /\ UNCHANGED <<lock, snap>>

\* build_indexes: writer.commit()
M_commit_ix ==
    /\ pc[Main] = "b_commit_ix"
    /\ ix' = wr[Main].ix
    /\ wr' = [wr EXCEPT ![Main] = NoWriter]
    /\ Goto(Main, "b_commit_db")
    /\ UNCHANGED <<root_exists, fs, db, index_exists, index_whoosh, observer, queue,
                   booted, n_fs, last>>
    /\ UNCHANGED <<lock, txn, snap>>

\* build_indexes: conn.commit(); then open_dir and start_watching()
M_commit_db ==
    /\ pc[Main] = "b_commit_db"
    /\ Commit(Main)
    /\ index_whoosh' = "open"
    /\ observer' = [observer EXCEPT !["MC"] = start_watching(@)]
    /\ booted' = "ok"
    /\ Goto(Main, "done")
    /\ UNCHANGED <<root_exists, fs, ix, index_exists, queue, n_fs, last>>
    /\ UNCHANGED <<lock, wr, snap>>

Pop(o) == queue' = [queue EXCEPT ![o] = Tail(@)]

\* the path a handler of app_search.py works on
MC_target(e) == IF e.event_type = "moved" THEN e.dest_path ELSE e.src_path

\* the handlers of app_search.py return before any store is touched
MC_filtered(e) ==
    \/ e.is_directory
    \/ e.event_type # "deleted" /\ ~Supported(MC_target(e))

W_skip ==
    /\ pc[WatchMC] = "idle" /\ Running("MC") /\ queue["MC"] # <<>>
    /\ MC_filtered(Next_event("MC"))
    /\ Pop("MC")
    /\ UNCHANGED <<root_exists, fs, db, ix, index_exists, index_whoosh, observer, booted,
                   n_fs, last>>
    /\ UNCHANGED conc_vars

\* with self._lock:
W_lock ==
    /\ pc[WatchMC] = "idle" /\ Running("MC") /\ queue["MC"] # <<>>
    /\ ~MC_filtered(Next_event("MC"))
    /\ lock = "free"
    /\ lock' = WatchMC
    /\ Goto(WatchMC, "writer")
    /\ UNCHANGED seq_vars
    /\ UNCHANGED <<txn, wr, snap>>

\* writer = self.index_whoosh.writer(), which raises LockError (caught and
\* printed) while WRITELOCK is held; _delete_file goes on to delete_by_term
W_writer ==
    /\ pc[WatchMC] = "writer"
    /\ LET e == Next_event("MC")
       IN  IF IxLocked
           THEN /\ Goto(WatchMC, "failed")
                /\ UNCHANGED wr
           ELSE IF e.event_type = "deleted"
           THEN /\ wr' = [wr EXCEPT ![WatchMC] =
                             [open |-> TRUE, ix |-> DeleteByTerm(ix, e.src_path)]]
                /\ Goto(WatchMC, "d_commit_ix")
           ELSE /\ wr' = [wr EXCEPT ![WatchMC] = [open |-> TRUE, ix |-> ix]]
                /\ Goto(WatchMC, "u_index")
    /\ UNCHANGED seq_vars
    /\ UNCHANGED <<lock, txn, snap>>

\* _update_single_file: self._index_single_track(writer, conn, filepath)
U_index ==
    /\ pc[WatchMC] = "u_index"
    /\ LET p == MC_target(Next_event("MC"))
           r == MC_index_single_track([ix |-> wr[WatchMC].ix, closed |-> FALSE], db, p)
       IN  IF r.raised
           THEN /\ wr' = [wr EXCEPT ![WatchMC] = NoWriter]
                /\ Goto(WatchMC, "failed")
                /\ UNCHANGED txn
           ELSE /\ ~DbLocked(WatchMC)
                /\ wr' = [wr EXCEPT ![WatchMC] = [open |-> TRUE, ix |-> r.writer.ix]]
                /\ Begin(WatchMC, r.conn)
                /\ Goto(WatchMC, "u_commit_ix")
    /\ UNCHANGED seq_vars
    /\ UNCHANGED <<lock, snap>>

\* the INSERT timed out: caught and printed, nothing is committed
U_index_locked ==
    /\ pc[WatchMC] = "u_index"
    /\ TagOf(MC_target(Next_event("MC"))).parsed
    /\ DbLocked(WatchMC)
    /\ wr' = [wr EXCEPT ![WatchMC] = NoWriter]
    /\ LockedOut(WatchMC)
    /\ UNCHANGED seq_vars
    /\ UNCHANGED <<lock, txn, snap>>

\* writer.commit() of _update_single_file and of _delete_file
W_commit_ix ==
    /\ pc[WatchMC] \in {"u_commit_ix", "d_commit_ix"}
    /\ ix' = wr[WatchMC].ix
    /\ wr' = [wr EXCEPT ![WatchMC] = NoWriter]
    /\ Goto(WatchMC, IF pc[WatchMC] = "u_commit_ix" THEN "commit_db" ELSE "d_delete")
    /\ UNCHANGED <<root_exists, fs, db, index_exists, index_whoosh, observer, queue,
                   booted, n_fs, last>>
    /\ UNCHANGED <<lock, txn, snap>>

\* _delete_file: conn.execute("DELETE FROM tracks WHERE path = ?")
D_delete ==
    /\ pc[WatchMC] = "d_delete"
    /\ ~DbLocked(WatchMC)
    /\ Begin(WatchMC, [db EXCEPT ![Next_event("MC").src_path] = NoRow])
    /\ Goto(WatchMC, "commit_db")
    /\ UNCHANGED seq_vars
    /\ UNCHANGED <<lock, wr, snap>>

\* the DELETE timed out after the index deletion was committed
D_delete_locked ==
    /\ pc[WatchMC] = "d_delete"
    /\ DbLocked(WatchMC)
    /\ LockedOut(WatchMC)
    /\ UNCHANGED seq_vars
    /\ UNCHANGED <<lock, txn, wr, snap>>

\* conn.commit(); conn.close()
W_commit_db ==
    /\ pc[WatchMC] = "commit_db"
    /\ Commit(WatchMC)
    /\ Goto(WatchMC, "unlock")
    /\ UNCHANGED <<root_exists, fs, ix, index_exists, index_whoosh, observer, queue,
                   booted, n_fs, last>>
    /\ UNCHANGED <<lock, wr, snap>>

\* a handler that releases the lock on its successful path only
W_unlock_on_success ==
    /\ pc[WatchMC] \in {"unlock", "failed", "locked_out", "locked_out_by_sync"}
    /\ lock' = IF pc[WatchMC] = "unlock" THEN "free" ELSE lock
    /\ Pop("MC")
    /\ Goto(WatchMC, "idle")
    /\ UNCHANGED <<root_exists, fs, db, ix, index_exists, index_whoosh, observer, booted,
                   n_fs, last>>
    /\ UNCHANGED <<txn, wr, snap>>

\* the with block ends and the handler returns
W_unlock ==
    /\ pc[WatchMC] \in {"unlock", "failed", "locked_out", "locked_out_by_sync"}
    /\ lock' = "free"
    /\ Pop("MC")
    /\ Goto(WatchMC, "idle")
    /\ UNCHANGED <<root_exists, fs, db, ix, index_exists, index_whoosh, observer, booted,
                   n_fs, last>>
    /\ UNCHANGED <<txn, wr, snap>>

\* a thread calls resync(): db_paths is read
R_db(a) ==
    /\ pc[a] = "idle"
    /\ snap' = [snap EXCEPT ![a] = [db_paths |-> DbPaths(db), fs_paths |-> {}]]
    /\ Goto(a, "r_fs")
    /\ UNCHANGED seq_vars
    /\ UNCHANGED <<lock, txn, wr>>

\* resync: fs_paths is read
R_fs(a) ==
    /\ pc[a] = "r_fs"
    /\ snap' = [snap EXCEPT ![a].fs_paths = FsPaths]
    /\ Goto(a, "r_write")
    /\ UNCHANGED seq_vars
    /\ UNCHANGED <<lock, txn, wr>>

\* resync: the DELETEs of to_remove and the INSERTs of to_add
R_write(a) ==
    /\ pc[a] = "r_write"
    /\ LET to_add == snap[a].fs_paths \ snap[a].db_paths
           to_remove == snap[a].db_paths \ snap[a].fs_paths
           removed == [p \in Paths |-> IF p \in to_remove THEN NoRow ELSE db[p]]
           rows == CE_index_all(removed, to_add)
       IN  IF to_remove = {} /\ \A p \in to_add : ~Exists(p)
           THEN /\ Goto(a, "idle")
                /\ snap' = [snap EXCEPT ![a] = NoSnap]
                /\ UNCHANGED txn
           ELSE /\ ~DbLocked(a)
                /\ Begin(a, rows)
                /\ Goto(a, "r_commit")
                /\ UNCHANGED snap
    /\ UNCHANGED seq_vars
    /\ UNCHANGED <<lock, wr>>

\* the first write statement of resync timed out: a DELETE raises out of
\* resync, an INSERT is logged as a failure to index; nothing is written
R_write_locked(a) ==
    /\ pc[a] = "r_write"
    /\ \/ snap[a].db_paths \ snap[a].fs_paths # {}
       \/ \E p \in snap[a].fs_paths \ snap[a].db_paths : Exists(p)
    /\ DbLocked(a)
    /\ snap' = [snap EXCEPT ![a] = NoSnap]
    /\ Goto(a, "idle")
    /\ UNCHANGED seq_vars
    /\ UNCHANGED <<lock, txn, wr>>

\* conn.commit() of resync and of rebuild
A_commit(a) ==
    /\ pc[a] \in {"r_commit", "k_commit"}
    /\ Commit(a)
    /\ snap' = [snap EXCEPT ![a] = NoSnap]
    /\ Goto(a, "idle")
    /\ UNCHANGED <<root_exists, fs, ix, index_exists, index_whoosh, observer, queue,
                   booted, n_fs, last>>
    /\ UNCHANGED <<lock, wr>>

\* a thread calls rebuild(): conn.execute("DELETE FROM tracks")
K_delete(a) ==
    /\ pc[a] = "idle"
    /\ ~DbLocked(a)
    /\ Begin(a, EmptyTable)
    /\ Goto(a, "k_walk")
    /\ UNCHANGED seq_vars
    /\ UNCHANGED <<lock, wr, snap>>

\* rebuild: the loop over rglob("*")
K_walk(a) ==
    /\ pc[a] = "k_walk"
    /\ Begin(a, CE_index_all(txn[a].rows, FsPaths))
    /\ Goto(a, "k_commit")
    /\ UNCHANGED seq_vars
    /\ UNCHANGED <<lock, wr, snap>>

\* the handler of _extractor.py returns before the table is touched
CE_filtered(e) == e.is_directory \/ ~Supported(e.src_path)

E_skip ==
    /\ pc[WatchCE] = "idle" /\ Running("CE") /\ queue["CE"] # <<>>
    /\ LET e == Next_event("CE")
       IN  \/ CE_filtered(e)
           \/ e.event_type \notin {"deleted", "moved"} /\ ~Exists(e.src_path)
    /\ Pop("CE")
    /\ UNCHANGED <<root_exists, fs, db, ix, index_exists, index_whoosh, observer, booted,
                   n_fs, last>>
    /\ UNCHANGED conc_vars

\* on_any_event: the DELETE, or _index_file under contextlib.suppress
E_write ==
    /\ pc[WatchCE] = "idle" /\ Running("CE") /\ queue["CE"] # <<>>
    /\ ~DbLocked(WatchCE)
    /\ LET e == Next_event("CE")
       IN  /\ ~CE_filtered(e)
           /\ IF e.event_type \in {"deleted", "moved"}
              THEN Begin(WatchCE, [db EXCEPT ![e.src_path] = NoRow])
              ELSE /\ Exists(e.src_path)
                   /\ Begin(WatchCE, CE_index_file(db, e.src_path).conn)
    /\ Goto(WatchCE, "e_commit")
    /\ UNCHANGED seq_vars
    /\ UNCHANGED <<lock, wr, snap>>

\* the INSERT timed out: suppressed, and the commit has nothing to commit
E_index_locked ==
    /\ pc[WatchCE] = "idle" /\ Running("CE") /\ queue["CE"] # <<>>
    /\ DbLocked(WatchCE)
    /\ LET e == Next_event("CE")
       IN  /\ ~CE_filtered(e)
           /\ e.event_type \notin {"deleted", "moved"}
           /\ Exists(e.src_path)
    /\ LockedOut(WatchCE)
    /\ UNCHANGED seq_vars
    /\ UNCHANGED <<lock, txn, wr, snap>>

\* the DELETE timed out: the exception leaves the handler
E_delete_locked ==
    /\ pc[WatchCE] = "idle" /\ Running("CE") /\ queue["CE"] # <<>>
    /\ DbLocked(WatchCE)
    /\ LET e == Next_event("CE")
       IN  /\ ~CE_filtered(e)
           /\ e.event_type \in {"deleted", "moved"}
    /\ LockedOut(WatchCE)
    /\ UNCHANGED seq_vars
    /\ UNCHANGED <<lock, txn, wr, snap>>

\* on_any_event: conn.commit()
E_commit ==
    /\ pc[WatchCE] = "e_commit"
    /\ Commit(WatchCE)
    /\ Pop("CE")
    /\ Goto(WatchCE, "idle")
    /\ UNCHANGED <<root_exists, fs, ix, index_exists, index_whoosh, observer, booted,
                   n_fs, last>>
    /\ UNCHANGED <<lock, wr, snap>>

\* the handler returns without having written, or the exception of its DELETE
\* ends the observer's thread
E_return ==
    /\ pc[WatchCE] \in {"locked_out", "locked_out_by_sync"}
    /\ Pop("CE")
    /\ Goto(WatchCE, IF Next_event("CE").event_type \in {"deleted", "moved"}
                     THEN "dead" ELSE "idle")
    /\ UNCHANGED <<root_exists, fs, db, ix, index_exists, index_whoosh, observer, booted,
                   n_fs, last>>
    /\ UNCHANGED <<lock, txn, wr, snap>>

\* the first start of the process, over a library of at most one file
InitConc ==
    /\ Init
    /\ \A p \in Paths \ {"p1"} : fs[p] = "absent"

NextConc ==
    \/ \E p \in Paths, c \in Contents \cup {"dir"} : n_fs < MaxConcFsOps /\ FsCreate(p, c)
    \/ \E p \in Paths, c \in Contents : n_fs < MaxConcFsOps /\ FsModify(p, c)
    \/ \E p, q \in Paths : n_fs < MaxConcFsOps /\ FsMove(p, q)
    \/ \E p \in Paths : n_fs < MaxConcFsOps /\ FsDelete(p)
    \/ M_start
    \/ M_reset
    \/ M_create
    \/ M_delete
    \/ M_delete_locked
    \/ M_walk
    \/ M_commit_ix
    \/ M_commit_db
    \/ W_skip
    \/ W_lock
    \/ W_writer
    \/ U_index
    \/ U_index_locked
    \/ W_commit_ix
    \/ D_delete
    \/ D_delete_locked
    \/ W_commit_db
    \/ W_unlock
    \/ \E a \in Callers : R_db(a)
    \/ \E a \in Callers : R_fs(a)
    \/ \E a \in Callers : R_write(a)
    \/ \E a \in Callers : R_write_locked(a)
    \/ \E a \in Callers : A_commit(a)
    \/ \E a \in Callers : K_delete(a)
    \/ \E a \in Callers : K_walk(a)
    \/ CE_start_monitoring
    \/ CE_stop_monitoring
    \/ E_skip
    \/ E_write
    \/ E_index_locked
    \/ E_delete_locked
    \/ E_commit
    \/ E_return

ConcSpec == InitConc /\ [][NextConc]_vars

(***************************************************************************)
(* SearchSpec: app_search.py alone, its three kinds of thread: the one     *)
(* that imports the module, the watcher's, and the ones that serve search  *)
(* requests.                                                               *)
(***************************************************************************)
\* a search that runs under `with self._lock`
search_locked(l) == l = "free"

\* search() and _collect_search_hits() hold no `with self._lock`: a request
\* is served whoever holds the lock
search_admitted(l) == TRUE

\* a request thread calls collection.search(query)
S_search(query) ==
    /\ search_admitted(lock)
    /\ MC_search(query)

NextSearch ==
    \/ \E p \in Paths, c \in Contents \cup {"dir"} : FsCreate(p, c)
    \/ \E p \in Paths, c \in Contents : FsModify(p, c)
    \/ \E p, q \in Paths : FsMove(p, q)
    \/ \E p \in Paths : FsDelete(p)
    \/ M_start
    \/ M_reset
    \/ M_create
    \/ M_delete
    \/ M_walk
    \/ M_commit_ix
    \/ M_commit_db
    \/ W_skip
    \/ W_lock
    \/ W_writer
    \/ U_index
    \/ W_commit_ix
    \/ D_delete
    \/ W_commit_db
    \/ W_unlock
    \/ \E q \in Queries : S_search(q)

SearchSpec == InitConc /\ [][NextSearch]_vars

(***************************************************************************)
(* ExtractSpec: CollectionExtractor alone, over a library that may hold    *)
(* files of every content from the start.                                  *)
(***************************************************************************)
InitExtract ==
    /\ root_exists = TRUE
    /\ fs \in [Paths -> {"absent"} \cup AllContents]
    /\ \A p \in Paths : ~Supported(p) => fs[p] \in {"absent", "bad"}
    /\ db = [p \in Paths |-> NoRow]
    /\ ix = EmptyBag
    /\ index_exists = FALSE
    /\ index_whoosh = "None"
    /\ observer = [o \in Observers |-> 0]
    /\ queue = [o \in Observers |-> <<>>]
    /\ booted = "no"
    /\ n_fs = 0
    /\ last = Op("init", NoPath, NoPath, FALSE)
    /\ ConcInit

NextExtract ==
    \/ \E p \in Paths, c \in Contents \cup {"dir"} : FsCreate(p, c)
    \/ \E p \in Paths, c \in Contents : FsModify(p, c)
    \/ \E p, q \in Paths : FsMove(p, q)
    \/ \E p \in Paths : FsDelete(p)
    \/ CE_do_resync
    \/ CE_do_rebuild

ExtractSpec == InitExtract /\ [][NextExtract]_vars

(***************************************************************************)
(* PathSpec: the artist the two extractors give a file, as a function of   *)
(* where the music root is, where the file is below it, and its tags.      *)
(***************************************************************************)
\* music roots at depth 1, 2 and 3: /m, /h/m, /h/u/m
Roots == { << <<"m">> >>, << <<"h">>, <<"m">> >>, << <<"h">>, <<"u">>, <<"m">> >> }

\* the directories between the music root and the file
Subdirs == { <<>>, << <<"A", "l">> >>, << <<"A", "r">>, <<"A", "l">> >> }

FileNames == { <<"a", ".", "m", "p", "3">>, <<"b", ".", "M", "P", "3">> }

\* TinyTag.get on a file of content c, with its failure caught
TagOfContent(c) ==
    IF c \in {"c1", "c2", "c3", "c4"} THEN [parsed |-> TRUE] @@ Tags(c) ELSE NoTag

Extracted(by, root, below, name, c, artist) ==
    [op |-> "extract_artist", by |-> by, root |-> root, below |-> below,
     name |-> name, tag |-> TagOfContent(c), artist |-> artist]

\* CollectionExtractor._extract_artist(tag, path)
CE_extract_artist(root, below, name, c) ==
    /\ last' = Extracted("CE", root, below, name, c,
                         extract_artist(TagOfContent(c), root \o below \o <<name>>))
    /\ UNCHANGED <<root_exists, fs, db, ix, index_exists, index_whoosh, observer, queue,
                   booted, n_fs>>
    /\ UNCHANGED conc_vars

\* the artist of MusicCollection._index_single_track, which is reached with a
\* tag that TinyTag could read
MC_extract_artist(root, below, name, c) ==
    /\ TagOfContent(c).parsed
    /\ last' = Extracted("MC", root, below, name, c,
                         MC_metadata(TagOfContent(c), root \o below \o <<name>>).artist)
    /\ UNCHANGED <<root_exists, fs, db, ix, index_exists, index_whoosh, observer, queue,
                   booted, n_fs>>
    /\ UNCHANGED conc_vars

InitPath ==
    /\ InitExtract
    /\ \A p \in Paths : fs[p] = "absent"

NextPath ==
    \/ \E root \in Roots, below \in Subdirs, name \in FileNames, c \in AllContents :
          CE_extract_artist(root, below, name, c)
    \/ \E root \in Roots, below \in Subdirs, name \in FileNames, c \in AllContents :
          MC_extract_artist(root, below, name, c)

PathSpec == InitPath /\ [][NextPath]_vars

(***************************************************************************)
(* RouteSpec: the /search route of app_search.py as a function of the raw  *)
(* hit list collection.search returns.  Artist, album and title values are *)
(* compared for equality only and are numbered here.                       *)
(***************************************************************************)
MaxShortHits == 3

NamesPerField == 2

MAX_SAMPLES == 3
TOP_ARTISTS == 20
TOP_ALBUMS == 30
TOP_TRACKS == 200

Min(a, b) == IF a < b THEN a ELSE b

\* the loop body for artist_matches: a new entry for an artist not seen yet;
\* else the loop over all entries, where the count is raised for the entry of
\* the artist and the title is appended to every entry that has room
ArtistStep(am, track) ==
    IF \A i \in DOMAIN am : am[i].name # track.artist
    THEN Append(am, [name |-> track.artist, track_count |-> 1,
                     sample_tracks |-> <<track.title>>])
    ELSE LET upd == [i \in DOMAIN am |->
                      LET a1 == IF am[i].name = track.artist
                                THEN [am[i] EXCEPT !.track_count = @ + 1] ELSE am[i]
                      IN  IF Len(a1.sample_tracks) < MAX_SAMPLES
                          THEN [a1 EXCEPT !.sample_tracks = Append(@, track.title)]
                          ELSE a1]
         IN  SubSeq(upd, 1, Len(am))

\* the loop body for album_matches: count and samples change for the entry
\* of the (artist, album) pair only
AlbumStep(al, track) ==
    IF \A i \in DOMAIN al : ~(al[i].artist = track.artist /\ al[i].name = track.album)
    THEN Append(al, [artist |-> track.artist, name |-> track.album, track_count |-> 1,
                     sample_tracks |-> <<track.title>>])
    ELSE LET upd == [i \in DOMAIN al |->
                      IF al[i].artist = track.artist /\ al[i].name = track.album
                      THEN LET a1 == [al[i] EXCEPT !.track_count = @ + 1]
                           IN  IF Len(al[i].sample_tracks) < MAX_SAMPLES
                               THEN [a1 EXCEPT !.sample_tracks = Append(@, track.title)]
                               ELSE a1
                      ELSE al[i]]
         IN  SubSeq(upd, 1, Len(al))

\* for track in raw_results: the hits i..j in their order, starting from acc.
\* The range is halved, and the lists after the first half are computed (they
\* are not empty) before the second half starts, so that the evaluation stays
\* shallow for long hit lists.
RECURSIVE Group(_, _, _, _)
Group(hits, i, j, acc) ==
    IF i > j THEN acc
    ELSE IF i = j
    THEN [artists |-> ArtistStep(acc.artists, hits[i]),
          albums  |-> AlbumStep(acc.albums, hits[i])]
    ELSE LET mid == (i + j) \div 2
             first == Group(hits, i, mid, acc)
         IN  IF Len(first.artists) > 0 /\ Len(first.albums) > 0
             THEN Group(hits, mid + 1, j, first)
             ELSE first

\* a sort that leaves the list as it is
Unsorted(groups) == groups

\* list.sort(key=track_count, reverse=True): stable, equal counts keep their order
RECURSIVE SortByCount(_)
SortByCount(groups) ==
    IF groups = <<>> THEN <<>>
    ELSE LET n == Len(groups)
             sorted == SortByCount(SubSeq(groups, 1, n - 1))
             x == groups[n]
             k == Cardinality({j \in DOMAIN sorted : sorted[j].track_count >= x.track_count})
         IN  SubSeq(sorted, 1, k) \o <<x>> \o SubSeq(sorted, k + 1, Len(sorted))

\* the JSON the route answers for a non-empty query
Route(hits) ==
    LET g == Group(hits, 1, Len(hits), [artists |-> <<>>, albums |-> <<>>])
        artists == SortByCount(g.artists)
        albums == SortByCount(g.albums)
    IN  [artists |-> SubSeq(artists, 1, Min(Len(artists), TOP_ARTISTS)),
         albums  |-> SubSeq(albums, 1, Min(Len(albums), TOP_ALBUMS)),
         tracks  |-> SubSeq(hits, 1, Min(Len(hits), TOP_TRACKS)),
         total_tracks |-> Len(hits)]

ShortHit == [artist : 1..NamesPerField, album : 1..NamesPerField, title : 1..NamesPerField]

ShortHitLists == UNION {[1..n -> ShortHit] : n \in 0..MaxShortHits}

\* n hits: hit i is of artist i and album i, and from hit ka (kb) on of artist
\* ka (album kb), the title of hit i is i
LongHitList(n, ka, kb) ==
    [i \in 1..n |-> [artist |-> Min(i, ka), album |-> Min(i, kb), title |-> i]]

LongHitLists ==
    {LongHitList(n, ka, kb) : n \in {TOP_ALBUMS + 5, TOP_TRACKS + 5},
                              ka \in {TOP_ARTISTS - 1, TOP_ARTISTS + 2},
                              kb \in {TOP_ALBUMS - 1, TOP_ALBUMS + 2}}

\* GET /search?q=... with a non-empty q, collection.search returning hits
search_route(hits) ==
    /\ last' = [op |-> "search_route", hits |-> hits, result |-> Route(hits)]
    /\ UNCHANGED <<root_exists, fs, db, ix, index_exists, index_whoosh, observer, queue,
                   booted, n_fs>>
    /\ UNCHANGED conc_vars

NextRoute == \E hits \in ShortHitLists \cup LongHitLists : search_route(hits)

RouteSpec == InitPath /\ [][NextRoute]_vars

(***************************************************************************)
(* SyncSpec: CollectionExtractor.is_synced_with_filesystem over every      *)
(* table and filesystem.  Here a row is the two columns the query selects, *)
(* path and mtime, and fs gives each path NoFile or its stat().            *)
(***************************************************************************)
MaxMtime == 2

Mtimes == 1..MaxMtime

\* the default of the parameter sample_size
SAMPLE_SIZE == 200

SampleSizes == {1, 2, SAMPLE_SIZE}

\* column mtime REAL: NULL in a row written before the column was added
NULL == [null |-> TRUE]

Real(t) == [null |-> FALSE, value |-> t]

SyncRow(p, mtime) == [path |-> p, mtime |-> mtime]

NoFile == [exists |-> FALSE]

Stat(t) == [exists |-> TRUE, st_mtime |-> t]

\* the comparison that ignores the recorded mtime
mtime_unchecked(row) == FALSE

\* row["mtime"] is None or path.stat().st_mtime != row["mtime"]
mtime_differs(row) ==
    row.mtime = NULL \/ Real(fs[row.path].st_mtime) # row.mtime

\* for row in rows: return False at the first row whose file is gone or changed
RECURSIVE sync_loop(_, _)
sync_loop(rows, i) ==
    IF i > Len(rows) THEN TRUE
    ELSE IF ~fs[rows[i].path].exists THEN FALSE
    ELSE IF mtime_differs(rows[i]) THEN FALSE
    ELSE sync_loop(rows, i + 1)

\* SELECT path, mtime FROM tracks ORDER BY RANDOM() LIMIT ?: any sample_size
\* rows of the table (all of them when it has fewer), in any order
Samples(sample_size) ==
    LET n == Min(sample_size, Cardinality(DbPaths(db)))
    IN  {rows \in [1..n -> {db[p] : p \in DbPaths(db)}] :
            \A i, j \in 1..n : i # j => rows[i] # rows[j]}

is_synced_with_filesystem(sample_size, rows) ==
    /\ rows \in Samples(sample_size)
    /\ last' = [op |-> "is_synced_with_filesystem", sample_size |-> sample_size,
                rows |-> rows, result |-> sync_loop(rows, 1)]
    /\ UNCHANGED <<root_exists, fs, db, ix, index_exists, index_whoosh, observer,
                   queue, booted, n_fs>>
    /\ UNCHANGED conc_vars

InitSync ==
    /\ root_exists = TRUE
    /\ fs \in [Paths -> {NoFile} \cup {Stat(t) : t \in Mtimes}]
    /\ \E present \in SUBSET Paths :
          db \in {d \in [Paths -> {NoRow} \cup
                                  {SyncRow(p, m) : p \in Paths,
                                                   m \in {NULL} \cup {Real(t) : t \in Mtimes}}] :
                     \A p \in Paths : IF p \in present THEN d[p] # NoRow /\ d[p].path = p
                                      ELSE d[p] = NoRow}
    /\ ix = EmptyBag
    /\ index_exists = FALSE
    /\ index_whoosh = "None"
    /\ observer = [o \in Observers |-> 0]
    /\ queue = [o \in Observers |-> <<>>]
    /\ booted = "no"
    /\ n_fs = 0
    /\ last = Op("init", NoPath, NoPath, FALSE)
    /\ ConcInit

NextSync ==
    \E sample_size \in SampleSizes :
        \E rows \in Samples(sample_size) : is_synced_with_filesystem(sample_size, rows)

SyncSpec == InitSync /\ [][NextSync]_vars

(***************************************************************************)
(* RebuildSpec: the three full rebuilds, file by file, and a crash of the  *)
(* process during the walk.  The library is LibrarySize(by) supported,     *)
(* readable files numbered in rglob's order; a table is the set of the     *)
(* files that have a row, db the committed one (what a restart finds) and  *)
(* txn[Main].rows the one the rebuild's connection sees.                   *)
(***************************************************************************)
MaxBatches == 2

MaxExtraFiles == 2

\* _extractor.py rebuild(): if count % 5000 == 0: logger.info(...)
CE_PROGRESS == 5000

\* read_library.py build_indexes(): if count % 2000 == 0: conn.commit()
RL_BATCH == 2000

Rebuilders == {"MC", "CE", "RL"}

\* the count at which each rebuild reports progress
Period(by) == IF by = "MC" THEN MC_BATCH ELSE IF by = "CE" THEN CE_PROGRESS ELSE RL_BATCH

LibrarySize(by) == MaxBatches * Period(by) + MaxExtraFiles

Walk(op, by, count) == [op |-> op, by |-> by, count |-> count]

Walking(by) == pc[Main] = "walk" /\ last.by = by

\* the head of each rebuild: DELETE FROM tracks on a new connection, which
\* opens the transaction; app_search.py and read_library.py open a writer
rebuild_start(by) ==
    /\ pc[Main] = "start"
    /\ pc' = [pc EXCEPT ![Main] = "walk"]
    /\ txn' = [txn EXCEPT ![Main] = [open |-> TRUE, rows |-> {}]]
    /\ wr' = [wr EXCEPT ![Main] = [open |-> by # "CE", ix |-> EmptyBag]]
    /\ last' = Walk("start", by, 0)
    /\ UNCHANGED <<root_exists, fs, db, ix, index_exists, index_whoosh, observer,
                   queue, booted, n_fs, lock, snap>>

\* app_search.py build_indexes(), one turn of the loop: _index_single_track
\* raises on the writer that the batch commit closed, and build_indexes ends
\* there with its transaction open; else the row is written and every
\* MC_BATCH rows the writer and the connection are committed
MC_build_step ==
    /\ Walking("MC") /\ last.count < LibrarySize("MC")
    /\ LET n == last.count + 1
           rows == txn[Main].rows \cup {n}
       IN  IF ~wr[Main].open
           THEN /\ pc' = [pc EXCEPT ![Main] = "raised"]
                /\ txn' = [txn EXCEPT ![Main] = [open |-> FALSE, rows |-> {}]]
                /\ last' = Walk("raise", "MC", last.count)
                /\ UNCHANGED <<db, wr>>
           ELSE /\ txn' = [txn EXCEPT ![Main].rows = rows]
                /\ last' = Walk("step", "MC", n)
                /\ IF n % MC_BATCH = 0
                   THEN /\ wr' = [wr EXCEPT ![Main].open = FALSE]
                        /\ db' = rows
                   ELSE UNCHANGED <<db, wr>>
                /\ UNCHANGED pc
    /\ UNCHANGED <<root_exists, fs, ix, index_exists, index_whoosh, observer,
                   queue, booted, n_fs, lock, snap>>

\* _extractor.py rebuild(), one turn of the loop: _index_file, count += 1,
\* and a log line every CE_PROGRESS rows
CE_rebuild_step ==
    /\ Walking("CE") /\ last.count < LibrarySize("CE")
    /\ txn' = [txn EXCEPT ![Main].rows = @ \cup {last.count + 1}]
    /\ last' = Walk("step", "CE", last.count + 1)
    /\ UNCHANGED <<root_exists, fs, db, ix, index_exists, index_whoosh, observer,
                   queue, booted, n_fs, pc, lock, wr, snap>>

\* read_library.py build_indexes(), one turn of the loop: the document, the
\* row, count += 1, and conn.commit() every RL_BATCH rows
RL_build_step ==
    /\ Walking("RL") /\ last.count < LibrarySize("RL")
    /\ LET n == last.count + 1
           rows == txn[Main].rows \cup {n}
       IN  /\ txn' = [txn EXCEPT ![Main].rows = rows]
           /\ last' = Walk("step", "RL", n)
           /\ IF n % RL_BATCH = 0 THEN db' = rows ELSE UNCHANGED db
    /\ UNCHANGED <<root_exists, fs, ix, index_exists, index_whoosh, observer,
                   queue, booted, n_fs, pc, lock, wr, snap>>

\* after the loop: writer.commit() where there is a writer, which raises on a
\* closed one, then conn.commit()
rebuild_finish(by) ==
    /\ Walking(by) /\ last.count = LibrarySize(by)
    /\ IF by = "MC" /\ ~wr[Main].open
       THEN /\ pc' = [pc EXCEPT ![Main] = "raised"]
            /\ last' = Walk("raise", by, last.count)
            /\ UNCHANGED db
       ELSE /\ pc' = [pc EXCEPT ![Main] = "done"]
            /\ db' = txn[Main].rows
            /\ last' = Walk("finish", by, last.count)
    /\ txn' = [txn EXCEPT ![Main] = [open |-> FALSE, rows |-> {}]]
    /\ wr' = [wr EXCEPT ![Main].open = FALSE]
    /\ UNCHANGED <<root_exists, fs, ix, index_exists, index_whoosh, observer,
                   queue, booted, n_fs, lock, snap>>

\* the process dies during the walk: SQLite rolls the open transaction back,
\* and the restarted process finds the committed table
Crash ==
    /\ pc[Main] = "walk"
    /\ pc' = [pc EXCEPT ![Main] = "crashed"]
    /\ txn' = [txn EXCEPT ![Main] = [open |-> FALSE, rows |-> {}]]
    /\ wr' = [wr EXCEPT ![Main].open = FALSE]
    /\ last' = Walk("crash", last.by, last.count)
    /\ UNCHANGED <<root_exists, fs, db, ix, index_exists, index_whoosh, observer,
                   queue, booted, n_fs, lock, snap>>

InitRebuild ==
    /\ root_exists = TRUE
    /\ fs = [p \in Paths |-> "absent"]
    /\ db = {}
    /\ ix = EmptyBag
    /\ index_exists = FALSE
    /\ index_whoosh = "None"
    /\ observer = [o \in Observers |-> 0]
    /\ queue = [o \in Observers |-> <<>>]
    /\ booted = "no"
    /\ n_fs = 0
    /\ last = Walk("init", "none", 0)
    /\ pc = [t \in Threads |-> IF t = Main THEN "start" ELSE "idle"]
    /\ lock = "free"
    /\ txn = [t \in Threads |-> [open |-> FALSE, rows |-> {}]]
    /\ wr = [t \in Threads |-> NoWriter]
    /\ snap = [t \in Threads |-> NoSnap]

NextRebuild ==
    \/ \E by \in Rebuilders : rebuild_start(by)
    \/ MC_build_step
    \/ CE_rebuild_step
    \/ RL_build_step
    \/ \E by \in Rebuilders : rebuild_finish(by)
    \/ Crash

RebuildSpec == InitRebuild /\ [][NextRebuild]_vars

(***************************************************************************)
(* ReaderSpec: search() of app_search.py as the two reads it is, run by a  *)
(* request thread beside the threads of SearchSpec: _whoosh_search reads   *)
(* the index and returns its hits, then _collect_search_hits reads the     *)
(* table, one SELECT per hit.  Neither takes the lock.                     *)
(***************************************************************************)
Reader == "a1"

\* what search() holds between its two reads: the hits of the index, and for
\* the record the paths that had a row when the index was read
Results(query, docs) ==
    [query |-> query, results |-> docs, db_paths |-> DbPaths(db), fs_paths |-> {}]

\* results = self._whoosh_search(query, limit); a blank query returns [] and
\* an index that was never opened raises, both before any read
Q_whoosh_search(query) ==
    /\ pc[Reader] = "idle" /\ booted # "no"
    /\ IF Strip(query) = <<>> \/ index_whoosh = "None"
       THEN /\ last' = Searched("search", query,
                           [raised |-> Strip(query) # <<>>, touched |-> FALSE])
            /\ UNCHANGED <<pc, snap>>
       ELSE /\ snap' = [snap EXCEPT ![Reader] = Results(query, IndexHits(query))]
            /\ Goto(Reader, "collect")
            /\ UNCHANGED last
    /\ UNCHANGED <<root_exists, fs, db, ix, index_exists, index_whoosh, observer, queue,
                   booted, n_fs>>
    /\ UNCHANGED <<lock, txn, wr>>

\* return self._collect_search_hits(results): each hit as its row, or as its
\* stored fields when the SELECT finds no row
Q_collect_search_hits ==
    /\ pc[Reader] = "collect"
    /\ last' = [op |-> "collect_search_hits", query |-> snap[Reader].query,
                hits |-> {Hydrate(d) : d \in snap[Reader].results},
                misses |-> {d.path : d \in {x \in snap[Reader].results : db[x.path] = NoRow}},
                db_paths |-> snap[Reader].db_paths]
    /\ snap' = [snap EXCEPT ![Reader] = NoSnap]
    /\ Goto(Reader, "idle")
    /\ UNCHANGED <<root_exists, fs, db, ix, index_exists, index_whoosh, observer, queue,
                   booted, n_fs>>
    /\ UNCHANGED <<lock, txn, wr>>

NextReader ==
    \/ \E p \in Paths, c \in Contents \cup {"dir"} : FsCreate(p, c)
    \/ \E p \in Paths, c \in Contents : FsModify(p, c)
    \/ \E p, q \in Paths : FsMove(p, q)
    \/ \E p \in Paths : FsDelete(p)
    \/ M_start
    \/ M_reset
    \/ M_create
    \/ M_delete
    \/ M_walk
    \/ M_commit_ix
    \/ M_commit_db
    \/ W_skip
    \/ W_lock
    \/ W_writer
    \/ U_index
    \/ W_commit_ix
    \/ D_delete
    \/ W_commit_db
    \/ W_unlock
    \/ \E q \in Queries : Q_whoosh_search(q)
    \/ Q_collect_search_hits

ReaderSpec == InitConc /\ [][NextReader]_vars

(***************************************************************************)
(* AppSpec: app.py, the mixtape editor.  Here fs is what the three         *)
(* directories hold: the mixtape JSON files, by file name, each with its   *)
(* title, tracks and cover; the cover files; the music files.  pc gives    *)
(* each client's session, n_fs counts the requests that passed the login   *)
(* check, and a step is one request, the whole of its handler.  The time   *)
(* stamps created and modified are left out.                               *)
(***************************************************************************)
MaxAppRequests == 2

MaxSelected == 2

Clients == Callers

MIXTAPE_DIR == <<"m", "i", "x", "t", "a", "p", "e", "s">>

MUSIC_DIR == <<"m", "u", "s", "i", "c">>

COVER_DIR == <<"c", "o", "v", "e", "r", "s">>

DotJson == <<".", "j", "s", "o", "n">>

DotJpg == <<".", "j", "p", "g">>

\* os.path.join(dir, name)
Join(dir, name) == dir \o <<"/">> \o name

\* werkzeug's secure_filename keeps ASCII letters, digits, "_", "." and "-"
FilenameChars ==
    {"a", "b", "c", "d", "e", "f", "g", "h", "i", "j", "k", "l", "m", "n", "o", "p",
     "q", "r", "s", "t", "u", "v", "w", "x", "y", "z", "0", "1", "2", "3", "4", "5",
     "6", "7", "8", "9", "_", ".", "-"}

\* "_".join(filename.split()), the separator "/" taken as a space before
RECURSIVE JoinWords(_, _)
JoinWords(s, pending) ==
    IF s = <<>> THEN <<>>
    ELSE IF Head(s) \in {" ", "/"} THEN JoinWords(Tail(s), TRUE)
    ELSE (IF pending THEN <<"_">> ELSE <<>>) \o <<Head(s)>> \o JoinWords(Tail(s), FALSE)

\* str.strip("._")
RECURSIVE StripDots(_)
StripDots(s) ==
    IF s # <<>> /\ Head(s) \in {".", "_"} THEN StripDots(Tail(s))
    ELSE IF s # <<>> /\ s[Len(s)] \in {".", "_"} THEN StripDots(SubSeq(s, 1, Len(s) - 1))
    ELSE s

\* secure_filename(name): separators and runs of whitespace become one "_",
\* other characters than FilenameChars are dropped, "." and "_" are stripped
\* from both ends
secure_filename(name) ==
    LET words == JoinWords(LStrip(name), FALSE)
    IN  StripDots(SelectSeq(words, LAMBDA ch : ch \in FilenameChars))

MixtapeFile(title) == secure_filename(title \o DotJson)

CoverPath(title) == Join(COVER_DIR, secure_filename(title \o DotJpg))

Mixtape(title, tracks, cover) == [title |-> title, tracks |-> tracks, cover |-> cover]

\* the files of MIXTAPE_DIR
Mixtapes == DOMAIN fs.mixtapes

\* open(path, "w"); json.dump(data, f)
WriteMixtape(files, name, data) ==
    [f \in DOMAIN files \cup {name} |-> IF f = name THEN data ELSE files[f]]

\* os.remove(path), and the source of os.rename
RemoveMixtape(files, name) == [f \in DOMAIN files \ {name} |-> files[f]]

\* os.path.exists(path), for a path below MUSIC_DIR or COVER_DIR: a music
\* file, a cover file or the directory MUSIC_DIR itself
PathExists(path) ==
    \/ \E f \in fs.music : path = Join(MUSIC_DIR, f)
    \/ path = Join(MUSIC_DIR, <<>>)
    \/ path \in fs.covers

T1 == <<"t", "1", ".", "m", "p", "3">>

T2 == <<"t", "2", ".", "m", "p", "3">>

\* a file that is not in MUSIC_DIR
TX == <<"x", ".", "m", "p", "3">>

\* the titles requests name: "a", "a b" and "a_b" (one file name for two
\* titles) and "?" (no character of it is kept)
TitleA == <<"a">>

Titles == {TitleA, <<"a", " ", "b">>, <<"a", "_", "b">>, <<"?">>}

\* what a form or a JSON body may select: file names, or paths for reorder
Selections(S) == UNION {[1..n -> S] : n \in 0..MaxSelected}

TrackNames == {T1, T2, TX, <<>>}

TrackPaths == {Join(MUSIC_DIR, T1), Join(MUSIC_DIR, T2), Join(MUSIC_DIR, TX)}

ADMIN_USERNAME == <<"a", "d", "m", "i", "n">>

ADMIN_PASSWORD == <<"p", "a", "s", "s", "w", "o", "r", "d">>

\* a decorator that lets every request through
login_not_required(c) == TRUE

\* @login_required: current_user.is_authenticated
login_required(c) == pc[c] = "logged_in"

Request(op, c, title, status) ==
    [op |-> op, client |-> c, title |-> title, status |-> status,
     authenticated |-> pc[c] = "logged_in"]

AppUnchanged == UNCHANGED <<root_exists, db, ix, index_exists, index_whoosh, observer,
                            queue, booted, lock, txn, wr, snap>>

\* a request answered without a change of any file
Answer(op, c, title, status) ==
    /\ last' = Request(op, c, title, status)
    /\ UNCHANGED fs

\* login_manager.unauthorized(): the redirect to the login view
Unauthorized(op, c, title) == Answer(op, c, title, 302) /\ UNCHANGED n_fs

\* a request: the login check, then the handler
Guarded(op, c, title, handler) ==
    /\ n_fs < MaxAppRequests
    /\ IF login_required(c) THEN handler /\ n_fs' = n_fs + 1
       ELSE Unauthorized(op, c, title)
    /\ UNCHANGED pc
    /\ AppUnchanged

\* POST /login: login_user when the form holds the admin's name and password
login(c, username, password) ==
    /\ pc[c] = "anonymous"
    /\ pc' = [pc EXCEPT ![c] = IF username = ADMIN_USERNAME /\ password = ADMIN_PASSWORD
                                THEN "logged_in" ELSE @]
    /\ last' = Request("login", c, <<>>, 200)
    /\ UNCHANGED <<fs, n_fs>>
    /\ AppUnchanged

\* GET /logout
logout(c) ==
    /\ pc[c] = "logged_in"
    /\ pc' = [pc EXCEPT ![c] = "anonymous"]
    /\ last' = Request("logout", c, <<>>, 302)
    /\ UNCHANGED <<fs, n_fs>>
    /\ AppUnchanged

\* a create that writes the file whether or not it is there
create_mixtape_overwrite(c, title) ==
    Guarded("create_mixtape", c, title,
          IF title = <<>> THEN Answer("create_mixtape", c, title, 400)
          ELSE /\ fs' = [fs EXCEPT !.mixtapes =
                            WriteMixtape(@, MixtapeFile(title), Mixtape(title, <<>>, None))]
               /\ last' = Request("create_mixtape", c, title, 302))

\* POST /create_mixtape
create_mixtape(c, title) ==
    Guarded("create_mixtape", c, title,
          IF title = <<>> THEN Answer("create_mixtape", c, title, 400)
          ELSE IF MixtapeFile(title) \in Mixtapes THEN Answer("create_mixtape", c, title, 400)
          ELSE /\ fs' = [fs EXCEPT !.mixtapes =
                            WriteMixtape(@, MixtapeFile(title), Mixtape(title, <<>>, None))]
               /\ last' = Request("create_mixtape", c, title, 302))

\* POST /clone_mixtape/<title>
clone_mixtape(c, title) ==
    Guarded("clone_mixtape", c, title,
          IF MixtapeFile(title) \notin Mixtapes THEN Answer("clone_mixtape", c, title, 404)
          ELSE LET new_title == title \o <<"_", "c", "l", "o", "n", "e">>
                   data == [fs.mixtapes[MixtapeFile(title)] EXCEPT !.title = new_title]
               IN  /\ fs' = [fs EXCEPT !.mixtapes = WriteMixtape(@, MixtapeFile(new_title), data)]
                   /\ last' = Request("clone_mixtape", c, title, 302))

\* POST /delete_mixtape/<title>
delete_mixtape(c, title) ==
    Guarded("delete_mixtape", c, title,
          /\ fs' = [fs EXCEPT !.mixtapes = RemoveMixtape(@, MixtapeFile(title))]
          /\ last' = Request("delete_mixtape", c, title, 302))

\* a list test that finds no path in any list
never_in_list(tracks, path) == TRUE

\* track_path not in data["tracks"]
not_in_list(tracks, path) == \A i \in DOMAIN tracks : tracks[i] # path

\* for track in selected: the path is appended when it exists and is not in
\* the list; the route /add_tracks passes the name through secure_filename,
\* edit_mixtape takes it as given
RECURSIVE AppendSelected(_, _, _, _)
AppendSelected(tracks, selected, i, secure) ==
    IF i > Len(selected) THEN tracks
    ELSE LET track == IF secure THEN secure_filename(selected[i]) ELSE selected[i]
             track_path == Join(MUSIC_DIR, track)
         IN  AppendSelected(IF PathExists(track_path) /\ not_in_list(tracks, track_path)
                            THEN Append(tracks, track_path) ELSE tracks,
                            selected, i + 1, secure)

\* list.remove(x): the first occurrence goes
RemoveFirst(tracks, x) ==
    LET i == CHOOSE k \in DOMAIN tracks :
                 tracks[k] = x /\ \A j \in 1..(k - 1) : tracks[j] # x
    IN  SubSeq(tracks, 1, i - 1) \o SubSeq(tracks, i + 1, Len(tracks))

EditForms ==
    {[action |-> "get"]}
    \cup {[action |-> "update_title", title |-> t] : t \in Titles \cup {<<" ">>}}
    \cup {[action |-> "add_tracks", new_tracks |-> s] : s \in Selections(TrackNames)}
    \cup {[action |-> "remove_track", track_path |-> p] : p \in TrackPaths}
    \cup {[action |-> "cover", allowed |-> b] : b \in BOOLEAN}

\* edit_mixtape, action update_title: the JSON file and the cover are renamed
\* and the data rewritten
update_title(c, title, form) ==
    LET name == MixtapeFile(title)
        data == fs.mixtapes[name]
        new_title == Strip(form.title)
        new_name == MixtapeFile(new_title)
        new_cover == CoverPath(new_title)
        covers == IF Truthy(data.cover) /\ data.cover \in fs.covers
                  THEN (fs.covers \ {data.cover}) \cup {new_cover} ELSE fs.covers
        new_data == Mixtape(new_title, data.tracks,
                            IF Truthy(data.cover) THEN new_cover ELSE data.cover)
    IN  IF new_title = <<>> \/ (new_title # title /\ new_name \in Mixtapes)
        THEN Answer("edit_mixtape", c, title, 302)
        ELSE /\ fs' = [fs EXCEPT !.mixtapes = WriteMixtape(RemoveMixtape(@, name),
                                                           new_name, new_data),
                                 !.covers = covers]
             /\ last' = Request("edit_mixtape", c, title, 302)

\* POST or GET /edit/<title>
edit_mixtape(c, title, form) ==
    Guarded("edit_mixtape", c, title,
        LET name == MixtapeFile(title)
            data == fs.mixtapes[name]
            write(d) == /\ fs' = [fs EXCEPT !.mixtapes = WriteMixtape(@, name, d)]
                        /\ last' = [Request("edit_mixtape", c, title, 302)
                                       EXCEPT !.op = form.action]
        IN  IF name \notin Mixtapes \/ form.action = "get"
            THEN Answer("edit_mixtape", c, title, IF name \in Mixtapes THEN 200 ELSE 302)
            ELSE IF form.action = "update_title" THEN update_title(c, title, form)
            ELSE IF form.action = "add_tracks"
            THEN LET tracks == AppendSelected(data.tracks, form.new_tracks, 1, FALSE)
                 IN  IF Len(tracks) > Len(data.tracks)
                     THEN write([data EXCEPT !.tracks = tracks])
                     ELSE Answer("add_tracks", c, title, 302)
            ELSE IF form.action = "remove_track"
            THEN IF \E i \in DOMAIN data.tracks : data.tracks[i] = form.track_path
                 THEN write([data EXCEPT !.tracks = RemoveFirst(@, form.track_path)])
                 ELSE Answer("edit_mixtape", c, title, 302)
            ELSE IF ~form.allowed THEN Answer("edit_mixtape", c, title, 302)
            ELSE /\ fs' = [fs EXCEPT !.mixtapes =
                              WriteMixtape(@, name, [data EXCEPT !.cover = CoverPath(title)]),
                                     !.covers = @ \cup {CoverPath(title)}]
                 /\ last' = Request("edit_mixtape", c, title, 302))

\* POST /add_tracks/<title>: open(path) raises when there is no such mixtape
add_tracks(c, title, selected) ==
    Guarded("add_tracks", c, title,
        LET name == MixtapeFile(title)
        IN  IF name \notin Mixtapes THEN Answer("add_tracks", c, title, 500)
            ELSE /\ fs' = [fs EXCEPT !.mixtapes[name].tracks =
                              AppendSelected(@, selected, 1, TRUE)]
                 /\ last' = Request("add_tracks", c, title, 302))

\* POST /reorder_tracks/<title>: the paths of the body that exist, as given
reorder_tracks(c, title, new_order) ==
    Guarded("reorder_tracks", c, title,
        LET name == MixtapeFile(title)
        IN  IF name \notin Mixtapes THEN Answer("reorder_tracks", c, title, 404)
            ELSE /\ fs' = [fs EXCEPT !.mixtapes[name].tracks =
                              SelectSeq(new_order, PathExists)]
                 /\ last' = Request("reorder_tracks", c, title, 200))

\* POST /upload_cover/<title>: the cover is saved, then the JSON file is
\* opened, which raises when there is no such mixtape
upload_cover(c, title, file) ==
    Guarded("upload_cover", c, title,
        LET name == MixtapeFile(title)
        IN  IF file \in {"none", "unnamed"} THEN Answer("upload_cover", c, title, 400)
            ELSE /\ fs' = [fs EXCEPT !.covers = @ \cup {CoverPath(title)},
                                     !.mixtapes = IF name \in Mixtapes
                                                  THEN [@ EXCEPT ![name].cover = CoverPath(title)]
                                                  ELSE @]
                 /\ last' = Request("upload_cover", c, title,
                                    IF name \in Mixtapes THEN 302 ELSE 500))

\* the directories as the process finds them: no mixtape, or the mixtape "a"
\* of an earlier run; two music files; nobody logged in
InitApp ==
    /\ root_exists = TRUE
    /\ \E tracks \in {<<>>, <<Join(MUSIC_DIR, T1)>>} :
          fs \in {[mixtapes |-> <<>>, covers |-> {}, music |-> {T1, T2}],
                  [mixtapes |-> WriteMixtape(<<>>, MixtapeFile(TitleA),
                                             Mixtape(TitleA, tracks, None)),
                   covers |-> {}, music |-> {T1, T2}]}
    /\ db = [p \in Paths |-> NoRow]
    /\ ix = EmptyBag
    /\ index_exists = FALSE
    /\ index_whoosh = "None"
    /\ observer = [o \in Observers |-> 0]
    /\ queue = [o \in Observers |-> <<>>]
    /\ booted = "no"
    /\ n_fs = 0
    /\ last = [op |-> "init", client |-> "none", title |-> <<>>, status |-> 0,
               authenticated |-> FALSE]
    /\ pc = [t \in Threads |-> IF t \in Clients THEN "anonymous" ELSE "idle"]
    /\ lock = "free"
    /\ txn = [t \in Threads |-> NoTxn]
    /\ wr = [t \in Threads |-> NoWriter]
    /\ snap = [t \in Threads |-> NoSnap]

NextApp ==
    \/ \E c \in Clients, password \in {ADMIN_PASSWORD, <<>>} : login(c, ADMIN_USERNAME, password)
    \/ \E c \in Clients : logout(c)
    \/ \E c \in Clients, title \in Titles \cup {<<>>} : create_mixtape(c, title)
    \/ \E c \in Clients, title \in Titles : clone_mixtape(c, title)
    \/ \E c \in Clients, title \in Titles : delete_mixtape(c, title)
    \/ \E c \in Clients, title \in Titles, form \in EditForms : edit_mixtape(c, title, form)
    \/ \E c \in Clients, title \in Titles, selected \in Selections(TrackNames) :
          add_tracks(c, title, selected)
    \/ \E c \in Clients, title \in Titles, new_order \in Selections(TrackPaths) :
          reorder_tracks(c, title, new_order)
    \/ \E c \in Clients, title \in Titles, file \in {"none", "unnamed", "cover.png"} :
          upload_cover(c, title, file)

AppSpec == InitApp /\ [][NextApp]_vars

(***************************************************************************)
(* Properties.                                                             *)
(***************************************************************************)
\* both stores hold exactly the key set f
Converged(d, i, f) == DbPaths(d) = f /\ IxPaths(i) = f

\* a rebuild ran in this step and completed: CollectionExtractor.rebuild where
\* a search index exists, or build_indexes (called by ensure_index) without
\* raising
RebuildCompleted ==
    \/ CE_do_rebuild /\ index_exists
    \/ MC_module_init /\ last'.op = "build_indexes" /\ ~last'.raised

\* C1: after a rebuild (build_indexes / rebuild) completes, keys(PrimaryStore)
\* = keys(SearchIndex) = the supported files on disk, the row count is the
\* number of such files, and no path that is gone from disk remains in a store.
C1_RebuildCompleteness ==
    [][RebuildCompleted =>
         /\ Converged(db', ix', FsPaths)
         /\ Cardinality(DbPaths(db')) = Cardinality(FsPaths)]_vars

\* build_indexes alone: when it completes, both stores hold the supported files
MC_BuildComplete ==
    [][(MC_module_init /\ last'.op = "build_indexes" /\ ~last'.raised) =>
         Converged(db', ix', FsPaths)]_vars

\* C2: from a state where both stores hold old_keys, with a supported file f
\* added on disk and an indexed file g deleted on disk, resync() leaves
\* keys(PrimaryStore) = keys(SearchIndex) = (old_keys \ {g}) \cup {f}.
C2_ResyncConvergence ==
    [][(/\ CE_do_resync
        /\ DbPaths(db) = IxPaths(ix)
        /\ \E f \in FsPaths \ DbPaths(db), g \in DbPaths(db) \ FsPaths :
               FsPaths = (DbPaths(db) \ {g}) \cup {f})
       => Converged(db', ix', FsPaths)]_vars

\* the watcher of app_search.py dispatches a file's move from a tracked path
\* to another path, both with a supported extension, the file being at its
\* destination with tags that parse
MC_MoveApplied ==
    /\ MC_on_moved
    /\ LET e == Next_event("MC")
       IN  /\ ~e.is_directory
           /\ Supported(e.src_path) /\ Supported(e.dest_path)
           /\ Tracked(e.src_path)
           /\ ~Exists(e.src_path)
           /\ IsFile(e.dest_path) /\ ~TinyTagRaises(e.dest_path)

\* C3: once a move event from tracked path A to path B has been applied, A is
\* absent from both stores and B is present in both, with the metadata
\* extracted from the file now at B.
C3_MoveSemantics ==
    [][MC_MoveApplied =>
         LET A == Next_event("MC").src_path
             B == Next_event("MC").dest_path
         IN  /\ A \notin DbPaths(db') /\ A \notin IxPaths(ix')
             /\ B \in DbPaths(db') /\ B \in IxPaths(ix')
             /\ db'[B] = MC_metadata(TagOf(B), Parts(B))]_vars

\* no search returns a hit with path p
NoHit(p) ==
    \A q \in Queries : \A h \in BagToSet(MC_search_result(q).hits) : h.path # p

\* C4: once a watcher delete event for an indexed path p has been applied
\* (_delete_file has returned), p is absent from PrimaryStore and SearchIndex
\* and no search returns a hit with path p.
C4_DeletePropagation ==
    (last.op = "on_deleted" /\ ~last.skipped /\ last.tracked) =>
        /\ last.src \notin DbPaths(db)
        /\ last.src \notin IxPaths(ix)
        /\ NoHit(last.src)

\* a delete event of an indexed path has been applied, other indexed paths remain
C4_Witness ==
    /\ last.op = "on_deleted" /\ ~last.skipped /\ last.tracked /\ ~last.raised
    /\ last.src \notin DbPaths(db) \cup IxPaths(ix)
    /\ IxPaths(ix) # {}

\* the watcher of app_search.py dispatches a create or modify event of an
\* existing file with a supported extension whose tags parse
MC_UpsertApplied ==
    /\ MC_on_created \/ MC_on_modified
    /\ LET e == Next_event("MC")
       IN  /\ ~e.is_directory
           /\ Supported(e.src_path)
           /\ IsFile(e.src_path) /\ ~TinyTagRaises(e.src_path)

\* C5: once a create or modify event for an existing supported file has been
\* applied, both stores contain the path and what they store for it is what
\* the file's current content yields: a modify event replaces the metadata
\* stored before, in both stores.
C5_WatcherUpsert ==
    [][MC_UpsertApplied =>
         LET p == Next_event("MC").src_path
             row == MC_metadata(TagOf(p), Parts(p))
         IN  /\ db'[p] = row
             /\ DocsOf(ix', p) = {DocOf(p, row)}]_vars

Writing(t) ==
    pc[t] \in {"b_create", "b_delete", "b_walk", "b_commit_ix", "b_commit_db",
               "u_commit_ix", "d_delete", "commit_db",
               "r_commit", "k_walk", "k_commit", "e_commit"}

\* thread t is inside build_indexes, rebuild or resync
Syncing(t) ==
    pc[t] \in {"b_reset", "b_create", "b_delete", "b_walk", "b_commit_ix", "b_commit_db",
               "r_fs", "r_write", "r_commit", "k_walk", "k_commit"}

\* C7 (as the specification states it): a thread between its first and its
\* last store write holds the mutex, and no two threads are there at once
C7_MutationSerialization ==
    /\ \A t \in Threads : Writing(t) => lock = t
    /\ \A t, u \in Threads : (Writing(t) /\ Writing(u)) => t = u

\* C8 (as the specification states it): at most one thread is inside a rebuild
\* or resync, and no watcher gives up on an event because a rebuild or resync
\* holds the table
C8_SyncExclusiveNoDrop ==
    /\ Cardinality({t \in Threads : Syncing(t)}) <= 1
    /\ \A w \in {WatchMC, WatchCE} : pc[w] # "locked_out_by_sync"


\* C9: when the filesystem has stopped changing and every notification of the
\* preceding creates, modifies, moves and deletes has been applied, then
\* keys(PrimaryStore) = keys(SearchIndex) = the supported files on disk
\* (stated for a library whose files all parse).
C9_EventualConvergence ==
    (queue["MC"] = <<>> /\ \A p \in FsPaths : ~TinyTagRaises(p))
        => Converged(db, ix, FsPaths)

\* C10: search(query, limit) never throws, in every state of the service,
\* also after a startup in which ensure_index failed.
C10_SearchNeverThrows == last.op = "search" => ~last.raised

\* what the search recorded in `last` returned; the stores are as it left them
LastSearch ==
    IF last.op = "search" THEN MC_search_result(last.query)
    ELSE RL_search_result(last.query)

\* the number of documents the index returns for a query
HitCount(query) == BagCardinality([d \in IndexHits(query) |-> CopiesIn(d, ix)])

\* C11 (as the specification states it): a search with an empty or
\* whitespace-only query returns the empty sequence and opens neither the
\* index's searcher nor a connection, whatever the state of the index handle.
C11_EmptyQueryShortCircuit ==
    (last.op \in {"search", "rl_search"} /\ Strip(last.query) = <<>>) =>
        /\ ~last.raised
        /\ ~last.touched
        /\ LastSearch.hits = EmptyBag

\* C12 (as the specification states it): a search returns one result per
\* index hit: the row of the hit's path where PrimaryStore has one, else the
\* index's stored fields title-cased; no hit is dropped.
C12_HitHydrationFallback ==
    (last.op \in {"search", "rl_search"} /\ ~last.raised) =>
        /\ BagCardinality(LastSearch.hits) = HitCount(last.query)
        /\ \A d \in IndexHits(last.query) : BagIn(Hydrate(d), LastSearch.hits)

\* C13 (as the specification states it): a file whose tags cannot be parsed is
\* still indexed, by build_indexes, by rebuild and resync, and by the watcher's
\* create and modify handlers: the failure to parse does not propagate and the
\* file is not left out of the stores.
C13_ExtractionNeverFails ==
    /\ (/\ last.op \in {"on_created", "on_modified"} /\ ~last.skipped
        /\ IsFile(last.src) /\ TinyTagRaises(last.src)) =>
            /\ ~last.raised
            /\ last.src \in DbPaths(db) \cap IxPaths(ix)
    /\ last.op = "build_indexes" =>
            /\ ~last.raised
            /\ FsPaths \subseteq DbPaths(db) \cap IxPaths(ix)
    /\ last.op \in {"rebuild", "resync"} => FsPaths \subseteq DbPaths(db)

\* what the fallback chain yields for a path root/Artist/Album/name.ext: a tag
\* value where the file has one (artist, else album artist), else the
\* directory's name, else the name without its extension
FallbackRecord(p) ==
    LET tag == TagOf(p)
        parts == Parts(p)
        n == Len(parts)
    IN  [artist |-> IF Truthy(tag.artist) THEN Strip(tag.artist)
                    ELSE IF Truthy(tag.albumartist) THEN Strip(tag.albumartist)
                    ELSE parts[n - 2],
         album  |-> IF Truthy(tag.album) THEN Strip(tag.album) ELSE parts[n - 1],
         title  |-> IF Truthy(tag.title) THEN Strip(tag.title)
                    ELSE SubSeq(parts[n], 1, LastDot(parts[n]) - 1)]

\* C14: a file at root/Artist/Album/track.ext is recorded with its tag values
\* where it has them (artist tag, then album-artist tag) and else with the
\* grandparent directory's name as artist, the parent directory's name as
\* album and the base name without extension as title.
C14_FallbackChain ==
    last.op = "rebuild" =>
        \A p \in FsPaths : Len(Parts(p)) = 4 => db[p] = FallbackRecord(p)

\* a rebuild recorded a file without tags and a file with an album-artist tag only
C14_Witness ==
    /\ last.op = "rebuild"
    /\ \E p \in FsPaths :
          /\ Len(Parts(p)) = 4
          /\ fs[p] \in {"bad", "c3"}
          /\ db[p].album = <<"A", "l">> /\ db[p].title = <<"a">>
          /\ db[p].artist \in { <<"A", "r">>, <<"E", "f">> }

\* C15: starting a watcher that already runs starts no second observer: each
\* watcher has at most one observer subscribed to the music root, and no
\* filesystem change is handed to a watcher's handler more than once.
C15_StartIdempotent ==
    /\ \A o \in Observers : observer[o] <= 1
    /\ \A o \in Observers : Len(queue[o]) <= n_fs

\* start_monitoring was called while its observer ran and had events queued
C15_Witness ==
    /\ last.op = "start_monitoring"
    /\ observer["CE"] = 1
    /\ queue["CE"] # <<>>

\* C16: once stop_monitoring has returned, the observer's thread has ended: no
\* handler is running or pending and none starts; stop_monitoring without a
\* watcher changes nothing, and a start_monitoring after it runs one observer.
C16_StopJoins ==
    /\ observer["CE"] = 0 =>
          /\ pc[WatchCE] = "idle"
          /\ ~txn[WatchCE].open
          /\ queue["CE"] = <<>>
    /\ last.op = "stop_monitoring" => observer["CE"] = 0
    /\ last.op = "start_monitoring" => observer["CE"] = 1

\* stop_monitoring found a running observer and returned, after a
\* filesystem change had been made under the music root
C16_Witness ==
    /\ last.op = "stop_monitoring"
    /\ ~last.skipped
    /\ observer["CE"] = 0
    /\ n_fs > 0

\* C17: a startup runs the full rebuild exactly when there is no search index
\* or the table of tracks has no row; when it runs none, it writes to neither
\* store.
C17_StartupDecision ==
    [][/\ (MC_module_init /\ root_exists) =>
             /\ (last'.op = "build_indexes") <=> (~index_exists \/ DbPaths(db) = {})
             /\ last'.op # "build_indexes" => UNCHANGED <<db, ix>>
       /\ RL_get_index =>
             /\ (last'.op = "rl_build_indexes") <=> (~index_exists \/ DbPaths(db) = {})
             /\ last'.op # "rl_build_indexes" => UNCHANGED <<db, ix>>]_vars

\* C18: when the music folder is missing, ensure_index raises to the module
\* initialization, which runs no rebuild, writes no row and no document, opens
\* no index and starts no watcher.
C18_MissingRootFatal ==
    [][(MC_module_init /\ ~root_exists) =>
          /\ last'.op = "ensure_index" /\ last'.raised
          /\ UNCHANGED <<db, ix, index_exists>>
          /\ index_whoosh' = "None"
          /\ ~Running("MC")']_vars

\* the module was initialized without its music folder while both stores
\* held tracks of an earlier run
C18_Witness ==
    /\ last.op = "ensure_index" /\ last.raised
    /\ ~root_exists
    /\ DbPaths(db) # {} /\ IxPaths(ix) # {}

\* C19: the path is the key of table tracks: a watcher create/modify event
\* that indexes a file leaves exactly the row extracted from the file as it
\* is now under its path, whether or not the path had a row, touches no other
\* row, and the indexing does not raise because the path had a row.
C19_PrimaryStoreUpsert ==
    [][/\ CE_on_any_event =>
             LET e == Next_event("CE")
                 p == e.src_path
             IN  (/\ ~e.is_directory /\ Supported(p) /\ Exists(p)
                  /\ e.event_type \notin {"deleted", "moved"}) =>
                     /\ db' = [db EXCEPT ![p] = CE_metadata(TagOf(p), Parts(p))]
                     /\ ~last'.raised
       /\ (MC_on_created \/ MC_on_modified) =>
             LET p == Next_event("MC").src_path
             IN  /\ (~last'.skipped /\ ~last'.raised) =>
                        db' = [db EXCEPT ![p] = MC_metadata(TagOf(p), Parts(p))]
                 /\ (~last'.skipped /\ index_whoosh = "open" /\ TagOf(p).parsed) =>
                        ~last'.raised]_vars

\* a modify event was handled for a file whose path had a row and a
\* document, and the row is the one of the file's new contents
C19_Witness ==
    /\ last.op = "on_modified"
    /\ last.tracked /\ ~last.raised /\ ~last.skipped
    /\ fs[last.src] = "c2"
    /\ db[last.src] = MC_metadata(TagOf(last.src), Parts(last.src))

\* C20: search takes no mutation lock: once the module is initialized a search
\* can run in every state, whoever holds the lock, and running it leaves the
\* lock and every other thread where they were.
C20_ReadsLockFree ==
    /\ [](booted # "no" => ENABLED (\E q \in Queries : S_search(q)))
    /\ [][(\E q \in Queries : S_search(q)) =>
             /\ lock' = lock
             /\ pc' = pc /\ queue' = queue /\ observer' = observer]_vars

\* a search returned while the watcher held the lock with its writer and
\* its transaction open
C20_Witness ==
    /\ last.op = "search" /\ ~last.raised /\ last.touched
    /\ lock = WatchMC
    /\ txn[WatchMC].open

\* C21: once a watcher create or modify event has indexed a path, the index
\* holds exactly one document for the path, the one of the file's present
\* artist/album/title; and no search returns one path twice.
C21_IndexAddOrReplace ==
    /\ (last.op \in {"on_created", "on_modified"} /\ ~last.skipped /\ ~last.raised) =>
          /\ DocCount(ix, last.src) = 1
          /\ DocsOf(ix, last.src) =
                {DocOf(last.src, MC_metadata(TagOf(last.src), Parts(last.src)))}
    /\ (last.op = "search" /\ ~last.raised) =>
          \A p \in Paths :
             LET hits == LastSearch.hits
                 of_p == {h \in BagToSet(hits) : h.path = p}
             IN  BagCardinality([h \in of_p |-> CopiesIn(h, hits)]) <= 1

\* C22: a file whose handling fails costs only that file: a full build or a
\* resync leaves every other file of the library in the stores it writes, and
\* the watcher whose handler failed inside goes on running.
C22_FailureIsolation ==
    /\ last.op = "build_indexes" =>
          \A p \in FsPaths : ~TinyTagRaises(p) => p \in DbPaths(db) \cap IxPaths(ix)
    /\ last.op \in {"rebuild", "resync"} =>
          \A p \in FsPaths : ~TinyTagRaises(p) => p \in DbPaths(db)
    /\ (last.op \in {"on_created", "on_modified", "on_moved", "on_deleted"} /\ last.raised) =>
          (booted = "ok" => Running("MC"))

\* C23: a watcher create/modify event whose file is gone when the handler
\* reads it changes neither store, and the handler returns to the observer,
\* which goes on running.
C23_TransientRaceSkipped ==
    [][/\ (MC_on_created \/ MC_on_modified) =>
             (~Exists(Next_event("MC").src_path) =>
                 /\ UNCHANGED <<db, ix, index_exists, index_whoosh>>
                 /\ observer' = observer /\ booted' = booted)
       /\ CE_on_any_event =>
             LET e == Next_event("CE")
             IN  (e.event_type \in {"created", "modified"} /\ ~Exists(e.src_path)) =>
                    /\ UNCHANGED <<db, ix, index_exists, index_whoosh>>
                    /\ observer' = observer /\ ~last'.raised]_vars

\* the watcher of app_search.py handled, with stores that hold tracks, a
\* create or modify event for a supported file that was gone by then
C23_Witness ==
    /\ last.op \in {"on_created", "on_modified"}
    /\ ~last.skipped
    /\ ~Exists(last.src)
    /\ DbPaths(db) # {} /\ IxPaths(ix) # {}
    /\ Running("MC")

\* C24: every row of table tracks has a non-empty artist, album and title,
\* whatever the tags of its file are (absent, empty, whitespace-only or not
\* blank) and wherever the file is.
C24_FieldsNeverEmpty ==
    \A p \in DbPaths(db) :
        /\ db[p].artist # <<>>
        /\ db[p].album # <<>>
        /\ db[p].title # <<>>

\* C25: for a file without artist and album-artist tag the artist is the
\* grandparent directory's name when the file has at least two directories
\* between the music root and itself, and "Unknown" otherwise, wherever the
\* music root is in the filesystem.
C25_ArtistRelativeToRoot ==
    (/\ last.op = "extract_artist"
     /\ ~Truthy(last.tag.artist) /\ ~Truthy(last.tag.albumartist)) =>
        last.artist = IF Len(last.below) >= 2
                      THEN last.below[Len(last.below) - 1]
                      ELSE Unknown

\* C26: neither store ever holds a path whose extension is not supported, and
\* a watcher event for a directory, or whose handled path (the destination
\* for a move in app_search.py, the source elsewhere) has an unsupported
\* extension, changes neither store.
C26_UnsupportedChangesNothing ==
    /\ [](\A p \in DbPaths(db) \cup IxPaths(ix) : Supported(p))
    /\ [][/\ (MC_on_created \/ MC_on_modified \/ MC_on_deleted) =>
                LET e == Next_event("MC")
                IN  (e.is_directory \/ ~Supported(e.src_path)) => UNCHANGED <<db, ix>>
          /\ MC_on_moved =>
                LET e == Next_event("MC")
                IN  (e.is_directory \/ ~Supported(e.dest_path)) => UNCHANGED <<db, ix>>
          /\ CE_on_any_event =>
                LET e == Next_event("CE")
                IN  (e.is_directory \/ ~Supported(e.src_path)) => UNCHANGED <<db, ix>>]_vars

\* the watcher of app_search.py, with tracks in both stores, ran _delete_file
\* for a deleted file of unsupported extension
C26_Witness ==
    /\ last.op = "on_deleted"
    /\ ~Supported(last.src)
    /\ ~last.skipped /\ ~last.raised
    /\ DbPaths(db) # {} /\ IxPaths(ix) # {}

\* the positions of the raw hits that belong to a group of the result
HitsOfArtist(hits, g) == {i \in DOMAIN hits : hits[i].artist = g.name}

HitsOfAlbum(hits, g) ==
    {i \in DOMAIN hits : hits[i].artist = g.artist /\ hits[i].album = g.name}

\* the titles of the first hits, at most MAX_SAMPLES, at the positions S
RECURSIVE FirstTitles(_, _, _)
FirstTitles(hits, S, n) ==
    IF S = {} \/ n = 0 THEN <<>>
    ELSE LET i == CHOOSE j \in S : \A k \in S : j <= k
         IN  <<hits[i].title>> \o FirstTitles(hits, S \ {i}, n - 1)

\* C27: in the answer of the search route each artist group counts the raw
\* hits of its artist and samples the titles of the first (at most three) of
\* them; each album group does the same for its artist and album; a group
\* has one to three sample titles.
C27_GroupContents ==
    last.op = "search_route" =>
        /\ \A i \in DOMAIN last.result.artists :
              LET g == last.result.artists[i]
                  S == HitsOfArtist(last.hits, g)
              IN  /\ g.track_count = Cardinality(S)
                  /\ g.sample_tracks = FirstTitles(last.hits, S, MAX_SAMPLES)
                  /\ Len(g.sample_tracks) \in 1..MAX_SAMPLES
        /\ \A i \in DOMAIN last.result.albums :
              LET g == last.result.albums[i]
                  S == HitsOfAlbum(last.hits, g)
              IN  /\ g.track_count = Cardinality(S)
                  /\ g.sample_tracks = FirstTitles(last.hits, S, MAX_SAMPLES)
                  /\ Len(g.sample_tracks) \in 1..MAX_SAMPLES

\* the groups the raw hits fall into: artists, and (artist, album) pairs
ArtistsOf(hits) == {hits[i].artist : i \in DOMAIN hits}

AlbumsOf(hits) == {<<hits[i].artist, hits[i].album>> : i \in DOMAIN hits}

\* C28: the route answers with the artist groups and the album groups in
\* non-increasing order of the number of their raw hits, at most 20 and 30 of
\* them and none left out that has more hits than one that is in; tracks is
\* the first 200 raw hits in their order.
C28_OrderingTruncation ==
    last.op = "search_route" =>
        LET hits == last.hits
            ar == last.result.artists
            al == last.result.albums
            n_ar(a) == Cardinality({i \in DOMAIN hits : hits[i].artist = a})
            n_al(k) == Cardinality({i \in DOMAIN hits :
                                       <<hits[i].artist, hits[i].album>> = k})
        IN  /\ \A i, j \in DOMAIN ar : i < j => n_ar(ar[i].name) >= n_ar(ar[j].name)
            /\ Len(ar) = Min(Cardinality(ArtistsOf(hits)), TOP_ARTISTS)
            /\ \A a \in ArtistsOf(hits) :
                  \/ \E i \in DOMAIN ar : ar[i].name = a
                  \/ \A i \in DOMAIN ar : n_ar(a) <= n_ar(ar[i].name)
            /\ \A i, j \in DOMAIN al :
                  i < j => n_al(<<al[i].artist, al[i].name>>) >= n_al(<<al[j].artist, al[j].name>>)
            /\ Len(al) = Min(Cardinality(AlbumsOf(hits)), TOP_ALBUMS)
            /\ \A k \in AlbumsOf(hits) :
                  \/ \E i \in DOMAIN al : <<al[i].artist, al[i].name>> = k
                  \/ \A i \in DOMAIN al : n_al(k) <= n_al(<<al[i].artist, al[i].name>>)
            /\ last.result.tracks = SubSeq(hits, 1, Min(Len(hits), TOP_TRACKS))

\* the route answered for more than 200 hits of more than 20 artists and 30
\* albums, the artist of most hits being the last one to appear
C28_Witness ==
    /\ last.op = "search_route"
    /\ Len(last.hits) > TOP_TRACKS
    /\ Cardinality(ArtistsOf(last.hits)) > TOP_ARTISTS
    /\ Cardinality(AlbumsOf(last.hits)) > TOP_ALBUMS
    /\ Len(last.result.tracks) = TOP_TRACKS
    /\ last.result.artists[1].name = last.hits[Len(last.hits)].artist

\* a sampled row is stale: its file is gone, or the file's mtime is not the
\* one the row records
StaleRow(row) ==
    \/ fs[row.path] = NoFile
    \/ \A t \in Mtimes : ~(fs[row.path] = Stat(t) /\ row.mtime = Real(t))

\* C29: is_synced_with_filesystem answers false exactly when a row of its
\* sample is stale, answers true for an empty table, and leaves PrimaryStore
\* and SearchIndex as they were.
C29_StalenessHeuristic ==
    /\ [](last.op = "is_synced_with_filesystem" =>
            /\ last.result = ~(\E i \in DOMAIN last.rows : StaleRow(last.rows[i]))
            /\ (DbPaths(db) = {} => last.result))
    /\ [][last'.op = "is_synced_with_filesystem" => db' = db /\ ix' = ix]_vars

\* it answered false for a sample holding a row whose file is there with
\* another mtime than the recorded one, the other sampled rows being fresh
C29_Witness ==
    /\ last.op = "is_synced_with_filesystem"
    /\ ~last.result
    /\ Len(last.rows) = 2
    /\ \E i \in DOMAIN last.rows :
          /\ fs[last.rows[i].path] # NoFile
          /\ last.rows[i].mtime # NULL
          /\ StaleRow(last.rows[i])
          /\ \A j \in DOMAIN last.rows : j # i => ~StaleRow(last.rows[j])

\* the rows written up to the last point at which the rebuild reported progress
RowsBeforeLastBatch(by, count) == 1..(count - (count % Period(by)))

\* C30: every rebuild commits PrimaryStore at each batch, so that after a
\* crash during the walk the rows written up to the last completed batch are
\* in the table the restarted process finds.
C30_BatchedDurability ==
    pc[Main] = "crashed" => RowsBeforeLastBatch(last.by, last.count) \subseteq db

\* a step of _update_single_file or _delete_file inside its with block
InHandler ==
    \/ W_writer \/ U_index \/ U_index_locked \/ W_commit_ix
    \/ D_delete \/ D_delete_locked \/ W_commit_db \/ W_unlock

\* the handler can take the step its position calls for; at
\* _index_single_track that is the raise of an unreadable file, the timeout
\* behind another connection's transaction, or else the write
HandlerCanStep ==
    IF pc[WatchMC] # "u_index" THEN ENABLED InHandler
    ELSE IF ~TagOf(MC_target(Next_event("MC"))).parsed THEN ENABLED U_index
    ELSE IF DbLocked(WatchMC) THEN ENABLED U_index_locked
    ELSE ~DbLocked(WatchMC)

\* C31: the lock of MusicCollection is held by a running handler only, so
\* that the next event finds it free; a handler that holds it can always take
\* its next step, whether its writes succeed or raise, and it returns with
\* the lock free.
C31_LockAlwaysReleased ==
    /\ [](/\ lock \in {"free", WatchMC}
          /\ (pc[WatchMC] = "idle" <=> lock = "free")
          /\ (pc[WatchMC] # "idle" => HandlerCanStep))
    /\ [][pc[WatchMC] # "idle" /\ pc'[WatchMC] = "idle" => lock' = "free"]_vars

\* a handler whose write raised is about to return, the lock still held
C31_Witness ==
    /\ pc[WatchMC] \in {"failed", "locked_out", "locked_out_by_sync"}
    /\ lock = WatchMC
    /\ ENABLED W_unlock

\* C32: the deletion of the document is committed before the row is deleted,
\* so no table the watcher's delete leaves behind lacks the row of an indexed
\* path, and no search that ran beside it found a hit in the index whose
\* row, there when the index was read, was gone when it looked for it.
C32_DeleteNeverCreatesMiss ==
    /\ (pc[WatchMC] \in {"d_commit_ix", "d_delete", "commit_db", "unlock"}
           /\ Next_event("MC").event_type = "deleted"
           => \A p \in IxPaths(ix) : p = Next_event("MC").src_path => p \in DbPaths(db))
    /\ (last.op = "collect_search_hits" => last.misses \cap last.db_paths = {})

\* C33: right after a resync, the filesystem being as that resync found it, a
\* second resync has nothing to add and nothing to remove, and the table it
\* commits is the table it found.
C33_ResyncIdempotent ==
    last.op = "resync" =>
        /\ FsPaths \ DbPaths(db) = {}
        /\ DbPaths(db) \ FsPaths = {}
        /\ CE_resync = db

\* a resync has run over a library that had changed, and left rows
C33_Witness ==
    /\ last.op = "resync"
    /\ n_fs > 0
    /\ DbPaths(db) # {}
    /\ DbPaths(db) # Paths

\* C34: a request changes a mixtape file or a cover file only when the
\* session it comes from is logged in, which a session becomes by a login
\* with the admin's name and password only; while nobody is logged in no
\* request changes a file.
C34_MutationsRequireLogin ==
    [][/\ (fs' # fs => last'.authenticated /\ pc[last'.client] = "logged_in")
       /\ ((\A c \in Clients : pc[c] = "anonymous") => fs' = fs)
       /\ \A c \in Clients :
             pc[c] = "anonymous" /\ pc'[c] = "logged_in" =>
                 last'.op = "login" /\ last'.client = c]_vars

\* a delete of a mixtape that is there was asked for without a login, and
\* answered by the redirect to the login page
C34_Witness ==
    /\ last.op = "delete_mixtape"
    /\ ~last.authenticated
    /\ last.status = 302
    /\ MixtapeFile(last.title) \in Mixtapes
    /\ \E c \in Clients : pc[c] = "logged_in"

\* C35: a create with an empty title, or with a title whose file is there,
\* is answered 400 and changes no file; any other create adds one file, with
\* the title, no track and no cover, and changes no other.
C35_CreateNeverOverwrites ==
    [][last'.op = "create_mixtape" /\ last'.authenticated =>
          IF last'.title = <<>> \/ MixtapeFile(last'.title) \in DOMAIN fs.mixtapes
          THEN last'.status = 400 /\ fs' = fs
          ELSE /\ last'.status = 302
               /\ DOMAIN fs'.mixtapes = DOMAIN fs.mixtapes \cup {MixtapeFile(last'.title)}
               /\ fs'.mixtapes[MixtapeFile(last'.title)] = Mixtape(last'.title, <<>>, None)
               /\ \A f \in DOMAIN fs.mixtapes : fs'.mixtapes[f] = fs.mixtapes[f]
               /\ fs'.covers = fs.covers]_vars

\* a create was refused because another title has the file
C35_Witness ==
    /\ last.op = "create_mixtape" /\ last.authenticated
    /\ last.status = 400
    /\ last.title # <<>>
    /\ MixtapeFile(last.title) \in Mixtapes
    /\ fs.mixtapes[MixtapeFile(last.title)].title # last.title

NoDuplicates(tracks) == \A i, j \in DOMAIN tracks : i # j => tracks[i] # tracks[j]

\* C36: an add, by the form of edit_mixtape or by the route, leaves the
\* tracks a mixtape had where they were and appends only paths that exist,
\* were not in the list and differ from each other: a list without
\* duplicates stays without.
C36_AddKeepsDuplicateFree ==
    [][last'.op = "add_tracks" =>
          \A f \in DOMAIN fs.mixtapes :
              /\ f \in DOMAIN fs'.mixtapes
              /\ LET old == fs.mixtapes[f].tracks
                     new == fs'.mixtapes[f].tracks
                 IN  /\ Len(new) >= Len(old)
                     /\ SubSeq(new, 1, Len(old)) = old
                     /\ \A i \in (Len(old) + 1)..Len(new) :
                           /\ PathExists(new[i])
                           /\ \A j \in 1..(i - 1) : new[j] # new[i]
                     /\ (NoDuplicates(old) => NoDuplicates(new))]_vars

\* the one request so far was an add, and it made a list of one two
C36_Witness ==
    /\ last.op = "add_tracks" /\ last.status = 302
    /\ n_fs = 1
    /\ \E f \in Mixtapes :
          /\ f = MixtapeFile(last.title)
          /\ Len(fs.mixtapes[f].tracks) = 2
          /\ NoDuplicates(fs.mixtapes[f].tracks)

====
